---- MODULE Spec2Model ----
(***************************************************************************)
(* Model of the QuMail backend: the key manager (backend/km_mock.py) with  *)
(* its ephemeral keys, sessions, HTTP routes, direct methods and cleanup   *)
(* pass; the crypto manager's encrypt_email and decrypt_email              *)
(* (backend/crypto_utils.py); and the request handlers of backend/main.py  *)
(* over both.                                                              *)
(*                                                                         *)
(* Time is the UTC clock in whole seconds.  A handler that reads the clock *)
(* more than once may see it advance between two reads.                    *)
(***************************************************************************)
EXTENDS Integers, Sequences, FiniteSets, TLC

VARIABLES now, ticks, app, running, cleanup_task,
          sessions, key_storage, keys, bytearrays,
          next_session, next_key, resp, consume_ok, issued, tasks, loop, crypto, backend

vars == <<now, ticks, app, running, cleanup_task,
          sessions, key_storage, keys, bytearrays,
          next_session, next_key, resp, consume_ok, issued, tasks, loop, crypto, backend>>

\* the coroutines of the event loop and the one that holds it
evloop == <<tasks, loop>>

kmState == <<sessions, key_storage, keys, bytearrays>>

\* ---------------------------------------------------------------- bounds
\* number of sessions the model authenticates
MaxSessions == 1
\* number of times the clock advances
MaxTicks == 2
\* KeyManagerMock.max_keys_per_session, scaled down from the default 100
max_keys_per_session == 1
\* number of keys the model issues: enough to pass the per-session limit
MaxKeys == max_keys_per_session + 1
\* request coroutines that can be in flight together
MaxTasks == 2

\* ------------------------------------------------------------- constants
default_key_size == 32
min_key_size == 16
max_key_size == 64
key_expiry_seconds == 300
session_timeout == 3600
SecondsPerDay == 86400

\* Python's None in a string-valued place
None == "None"
\* an Optional value: NoValue is None, Some(x) a present value
NoValue == <<>>
Some(x) == <<x>>
\* no session id / key id (tokens are numbered from 1)
NoId == 0

\* clock advances between two operations
TickSteps == {1, key_expiry_seconds, session_timeout, SecondsPerDay}
\* clock advance between two reads inside one handler
ReadGaps == {0, 1}

Principals == {"alice@x.com"}
\* key_size values sent to the getKey route (NoValue: parameter omitted)
RouteKeySizes == {NoValue, Some(15), Some(65)}
\* key_size values passed to KeyManagerMock.get_key
ApiKeySizes == {0, 32}
\* seeds of the random source
Seeds == {165}

SessionIds == 1..MaxSessions
TaskIds == 1..MaxTasks
\* the coroutine of _cleanup_loop
SweepTask == 0
AllTasks == TaskIds \cup {SweepTask}
\* a request slot with no coroutine in it
IdleTask == [h |-> "idle", pc |-> "idle", sid |-> NoId, kid |-> NoId,
             expired_keys |-> {}, expired_sessions |-> {}]
\* _cleanup_loop before a pass
SweepStart == [IdleTask EXCEPT !.h = "cleanup", !.pc = "s_scan"]
KeyIds == 1..MaxKeys

\* ------------------------------------------------------------ primitives
\* secrets.token_bytes(n): n bytes from the random source
token_bytes(n, seed) == [i \in 1..n |-> (seed + i) % 256]

Zeros(n) == [i \in 1..n |-> 0]

IsZeroed(b) == \A i \in 1..Len(b) : b[i] = 0

\* truth value of a bytes / bytearray / None value
Truthy(data) == data # NoValue /\ Len(data[1]) > 0

\* timedelta.seconds of a non-negative difference: the days are dropped
TimedeltaSeconds(d) == d % SecondsPerDay

\* ---------------------------------------------------------- EphemeralKey
NewEphemeralKey(key_data, expiry_seconds, t) ==
    [key_data |-> Some(key_data),
     created_at |-> t,
     expires_at |-> t + expiry_seconds,
     consumed |-> FALSE,
     session_id |-> NoId]

KeyIsExpired(k, t) == t > k.expires_at

\* is_valid that forgets the consumed flag
KeyIsValid_IgnoresConsumed(k, t) == ~KeyIsExpired(k, t)

\* is_valid that forgets the expiry
KeyIsValid_IgnoresExpiry(k, t) == ~k.consumed

KeyIsValid(k, t) == ~KeyIsExpired(k, t) /\ ~k.consumed

\* secure_wipe: the key object after the call
WipedKey(k) == IF Truthy(k.key_data) THEN [k EXCEPT !.key_data = NoValue] ELSE k

\* variant: the buffer is dropped without being overwritten
WipedBytes_NoZero(k, b) == b

\* secure_wipe: the bytearray the key held, after the call
WipedBytes(k, b) == IF Truthy(k.key_data) THEN Zeros(Len(b)) ELSE b

\* the key heap and the bytearrays after secure_wipe of every key in K
KeysAfterWipe(K) == [k \in DOMAIN keys |-> IF k \in K THEN WipedKey(keys[k]) ELSE keys[k]]

BytesAfterWipe(K) ==
    [k \in DOMAIN bytearrays |-> IF k \in K THEN WipedBytes(keys[k], bytearrays[k])
                                            ELSE bytearrays[k]]

\* ------------------------------------------------------------- KMSession
\* (created_at is only ever reported, never read back: it is left out)
NewSession(user_email, t) ==
    [user_email |-> user_email,
     last_activity |-> t,
     active |-> TRUE,
     keys_requested |-> 0,
     keys_consumed |-> 0,
     current_keys |-> {}]

update_activity(s, t) == [s EXCEPT !.last_activity = t]

SessionIsExpired(s, t) == TimedeltaSeconds(t - s.last_activity) > session_timeout

\* add_key that does not count the request
add_key_NoCount(s, kid, t) ==
    update_activity([s EXCEPT !.current_keys = @ \cup {kid}], t)

add_key(s, kid, t) ==
    update_activity([s EXCEPT !.current_keys = @ \cup {kid},
                              !.keys_requested = @ + 1], t)

\* ids the session's cleanup_expired_keys wipes and deletes at time t
SessionExpiredKeys(s, t) == {k \in s.current_keys : KeyIsExpired(keys[k], t)}

cleanup_expired_keys(s, t) == [s EXCEPT !.current_keys = @ \ SessionExpiredKeys(s, t)]

SessionToDict(s, t) ==
    [user_email |-> s.user_email,
     active |-> s.active,
     keys_requested |-> s.keys_requested,
     keys_consumed |-> s.keys_consumed,
     current_keys |-> Cardinality(s.current_keys),
     expired |-> SessionIsExpired(s, t)]

\* ------------------------------------------------------------- responses
\* the last call: its name, the ids it named or created, the status and the
\* key material it returned
Response(op, sid, kid, status, data) ==
    [op |-> op, session_id |-> sid, key_id |-> kid, status |-> status, key_data |-> data,
     removed |-> <<0, 0>>]


\* status of a call that returned normally / raised ValueError
OK == 200
ValueError == 1

\* the session check shared by both issuance entry points
SessionUsable(sid, t) ==
    /\ sid \in DOMAIN sessions
    /\ sessions[sid].active
    /\ ~SessionIsExpired(sessions[sid], t)

\* the session check of the consumeKey route
ConsumeSessionOk(sid) ==
    /\ sid \in DOMAIN sessions
    /\ sessions[sid].active

\* the size check of the getKey route
KeySizeOk(key_size) == ~(key_size > max_key_size \/ key_size < min_key_size)

\* the limit check of the getKey route
KeyLimitReached(s) == Cardinality(s.current_keys) >= max_keys_per_session

TypeOK ==
    /\ now \in Nat
    /\ ticks \in 0..MaxTicks
    /\ app \in BOOLEAN
    /\ running \in BOOLEAN
    /\ cleanup_task \in {None, "scheduled", "cancelled"}
    /\ DOMAIN sessions \subseteq SessionIds
    /\ key_storage \subseteq KeyIds
    /\ DOMAIN keys = 1..(next_key - 1)
    /\ DOMAIN bytearrays = DOMAIN keys
\* ----------------------------------------------------------- crypto_utils
\* Byte strings and texts are sequences of codes.  A digest, and every other
\* value whose bytes only a library knows, is a term: equal terms come from
\* equal inputs.

\* longest subject and body
MaxLen == 1

\* characters of a subject or a body: h, the quote, e-acute
Chars == {104, 34, 233}

RECURSIVE StringsUpTo(_)
StringsUpTo(n) ==
    IF n = 0 THEN {<<>>}
    ELSE StringsUpTo(n - 1) \cup {Append(s, c) : s \in StringsUpTo(n - 1), c \in Chars}

\* an attachment dict: its filename, and its content when it carries one
\* (compose_email puts the uploaded bytes there)
Attachment(filename, content) == [filename |-> filename, content |-> content]

AttachmentLists ==
    {<<>>, <<Attachment(<<104>>, NoValue)>>, <<Attachment(<<104>>, Some(<<0, 255>>))>>}

EmailData ==
    {[to |-> "bob@x.com", subject |-> s, body |-> b, attachments |-> a] :
        s \in StringsUpTo(MaxLen), b \in StringsUpTo(MaxLen), a \in AttachmentLists}

Modes == {"OTP", "AES", "PQC", "NONE", "ROT13"}

\* a key of max_key_size whose only non-zero byte is byte i
OneByteKey(i) == [j \in 1..max_key_size |-> IF j = i THEN 1 ELSE 0]

\* km_key arguments: None, no bytes, a default key, a key of max_key_size,
\* and keys that are zero but for their first or their last byte
KmKeys == {NoValue, Some(<<>>), Some(token_bytes(default_key_size, 165)),
           Some(token_bytes(max_key_size, 165)),
           Some(OneByteKey(1)), Some(OneByteKey(max_key_size))}

Digest(alg, data, size) == [alg |-> alg, data |-> data, size |-> size]

\* hashlib.sha256(data).digest()
sha256(data) == Digest("sha256", data, 32)

\* b"MAC", b"AES", b"qumail_default_key"
MAC_SUFFIX == <<77, 65, 67>>
AES_SUFFIX == <<65, 69, 83>>
DEFAULT_MAC_KEY == Digest("raw", <<113, 117, 109, 97, 105, 108, 95, 100, 101, 102, 97, 117, 108, 116, 95, 107, 101, 121>>, 18)

\* the sum of b[lo..hi], by halves
RECURSIVE SumRange(_, _, _)
SumRange(b, lo, hi) ==
    IF lo > hi THEN 0
    ELSE IF lo = hi THEN b[lo]
    ELSE SumRange(b, lo, (lo + hi) \div 2) + SumRange(b, ((lo + hi) \div 2) + 1, hi)

SumBytes(b) == SumRange(b, 1, Len(b)) % 256

RECURSIVE XorBits(_, _, _)
XorBits(a, b, n) ==
    IF n = 0 THEN 0
    ELSE (((a % 2) + (b % 2)) % 2) + 2 * XorBits(a \div 2, b \div 2, n - 1)

\* p ^ k on bytes
Xor(p, k) == XorBits(p, k, 8)

\* the result of a call: the value it returns, or the exception it raises
\* (its class and its message)
Returns(v) == [raised |-> "", msg |-> "", value |-> v]
RaisesMsg(e, msg) == [raised |-> e, msg |-> msg, value |-> <<>>]
Raises(e) == RaisesMsg(e, e)

Min(a, b) == IF a < b THEN a ELSE b

\* variant: no length test, zip() stops at the end of the shorter argument
otp_encrypt_NoLengthCheck(plaintext, key) ==
    Returns([i \in 1..Min(Len(plaintext), Len(key)) |-> Xor(plaintext[i], key[i])])

\* variant: the pad is taken one byte further on
otp_encrypt_ShiftedPad(plaintext, key) ==
    IF Len(key) < Len(plaintext) THEN RaisesMsg("ValueError", "OTP key must be at least as long as plaintext")
    ELSE Returns([i \in 1..Len(plaintext) |-> Xor(plaintext[i], key[(i % Len(key)) + 1])])

otp_encrypt(plaintext, key) ==
    IF Len(key) < Len(plaintext)
    THEN RaisesMsg("ValueError", "OTP key must be at least as long as plaintext")
    ELSE Returns([i \in 1..Len(plaintext) |-> Xor(plaintext[i], key[i])])

\* variant: the pad is taken one byte further on
otp_decrypt_ShiftedPad(ciphertext, key) ==
    IF Len(key) < Len(ciphertext) THEN Raises("ValueError")
    ELSE Returns([i \in 1..Len(ciphertext) |->
                     Xor(ciphertext[i], key[(i % Len(key)) + 1])])

otp_decrypt(ciphertext, key) ==
    IF Len(key) < Len(ciphertext)
    THEN RaisesMsg("ValueError", "OTP key must be at least as long as ciphertext")
    ELSE Returns([i \in 1..Len(ciphertext) |-> Xor(ciphertext[i], key[i])])

\* AES-GCM of the cryptography package: a keystream cipher followed by a
\* 16 byte tag, both functions of key and nonce
TagLen == 16
KeyNum(key) == SumBytes(key.data)
Keystream(key, nonce, i) == (KeyNum(key) + SumBytes(nonce) + i) % 256
GcmTag(key, nonce, ct) ==
    [j \in 1..TagLen |-> (KeyNum(key) + SumBytes(nonce) + SumBytes(ct) + j) % 256]

\* the PBKDF2 derivation of aes_encrypt and aes_decrypt
AesKey(key) == IF key.size \in {16, 24, 32} THEN key ELSE Digest("pbkdf2", key.data, 32)

aes_encrypt(plaintext, key, nonce) ==
    LET k == AesKey(key)
        ct == [i \in 1..Len(plaintext) |-> Xor(plaintext[i], Keystream(k, nonce, i))]
    IN ct \o GcmTag(k, nonce, ct)

aes_decrypt(ciphertext, key, nonce) ==
    LET k == AesKey(key)
        n == Len(ciphertext) - TagLen
        ct == SubSeq(ciphertext, 1, n)
    IN IF n < 0 \/ SubSeq(ciphertext, n + 1, Len(ciphertext)) # GcmTag(k, nonce, ct)
       THEN Raises("InvalidTag")
       ELSE Returns([i \in 1..n |-> Xor(ct[i], Keystream(k, nonce, i))])

\* base64 text: the sequence of alphabet indexes, Pad for "=", Junk for a
\* character outside the alphabet
Pad == 64
Junk == 65
ByteAt(b, i) == IF i <= Len(b) THEN b[i] ELSE 0

B64Char(b, j) ==
    LET g == (j - 1) \div 4
        b0 == ByteAt(b, 3 * g + 1)
        b1 == ByteAt(b, 3 * g + 2)
        b2 == ByteAt(b, 3 * g + 3)
        pos == (j - 1) % 4
    IN IF pos = 0 THEN (b0 \div 4)
       ELSE IF pos = 1 THEN ((b0 % 4) * 16) + (b1 \div 16)
       ELSE IF pos = 2 THEN IF 3 * g + 2 > Len(b) THEN Pad ELSE ((b1 % 16) * 4) + (b2 \div 64)
       ELSE IF 3 * g + 3 > Len(b) THEN Pad ELSE (b2 % 64)

\* base64.b64encode(b).decode('utf-8')
b64encode(b) == [j \in 1..(4 * ((Len(b) + 2) \div 3)) |-> B64Char(b, j)]

Sextet(text, j) == IF text[j] = Pad THEN 0 ELSE text[j]

B64Byte(text, k) ==
    LET g == (k - 1) \div 3
        c0 == Sextet(text, 4 * g + 1)
        c1 == Sextet(text, 4 * g + 2)
        c2 == Sextet(text, 4 * g + 3)
        c3 == Sextet(text, 4 * g + 4)
        pos == (k - 1) % 3
    IN IF pos = 0 THEN (c0 * 4) + (c1 \div 16)
       ELSE IF pos = 1 THEN ((c1 % 16) * 16) + (c2 \div 4)
       ELSE ((c2 % 4) * 64) + c3

Pads(text) == Cardinality({j \in 1..Len(text) : text[j] = Pad})

InAlphabet(c) == c <= Pad

\* the text without the characters b64decode discards
Kept(text) == SelectSeq(text, InAlphabet)

\* base64.b64decode(text): the unused low bits of the last character are
\* not looked at
b64decode(text) ==
    LET t == Kept(text)
    IN IF Len(t) % 4 # 0 \/ Pads(t) > 2
          \/ \E j \in 1..Len(t) : t[j] = Pad /\ j <= Len(t) - Pads(t)
       THEN RaisesMsg("binascii.Error", "Incorrect padding")
       ELSE Returns([k \in 1..(3 * (Len(t) \div 4) - Pads(t)) |-> B64Byte(t, k)])

\* base64 text of bytes only a library knows: the value its data bits
\* encode, the unused low bits of its last character, and whether all its
\* characters are of the alphabet
B64Text(d) == [b64 |-> d, spare |-> 0, alphabet |-> TRUE]

\* base64.b64decode of such a text
B64TextDecode(text) ==
    IF ~text.alphabet THEN RaisesMsg("binascii.Error", "Incorrect padding")
    ELSE Returns(text.b64)

\* hmac.new(key, data, hashlib.sha256).digest()
HmacDigest(data, key) == Digest("hmac-sha256", <<key.alg, key.data, data>>, 32)

\* compute_hmac: the base64 text of the HMAC-SHA256 digest
compute_hmac(data, key) == B64Text(HmacDigest(data, key))

\* verify_hmac: False when the text does not decode
verify_hmac(data, key, expected_mac) ==
    LET e == B64TextDecode(expected_mac)
    IN e.raised = "" /\ e.value = HmacDigest(data, key)

\* ---- json.dumps and json.loads on the content dict
HexDigit(d) == IF d < 10 THEN 48 + d ELSE 87 + d

\* \uXXXX
UEscape(c) == <<92, 117, HexDigit(c \div 4096), HexDigit((c \div 256) % 16),
                HexDigit((c \div 16) % 16), HexDigit(c % 16)>>

EscapeChar(c) ==
    IF c = 34 THEN <<92, 34>>
    ELSE IF c = 92 THEN <<92, 92>>
    ELSE IF c = 10 THEN <<92, 110>>
    ELSE IF c < 32 \/ c > 127 THEN UEscape(c)
    ELSE <<c>>

RECURSIVE EscapeAll(_)
EscapeAll(s) == IF s = <<>> THEN <<>> ELSE EscapeChar(Head(s)) \o EscapeAll(Tail(s))

JsonString(s) == <<34>> \o EscapeAll(s) \o <<34>>

L_subject == <<123, 34, 115, 117, 98, 106, 101, 99, 116, 34, 58, 32>>
L_body == <<44, 32, 34, 98, 111, 100, 121, 34, 58, 32>>
L_attachments == <<44, 32, 34, 97, 116, 116, 97, 99, 104, 109, 101, 110, 116, 115, 34, 58, 32>>
L_filename == <<123, 34, 102, 105, 108, 101, 110, 97, 109, 101, 34, 58, 32>>
L_sep == <<44, 32>>

JsonAttachment(a) == L_filename \o JsonString(a.filename) \o <<125>>

RECURSIVE JsonItems(_)
JsonItems(as) ==
    IF as = <<>> THEN <<>>
    ELSE IF Len(as) = 1 THEN JsonAttachment(as[1])
    ELSE JsonAttachment(as[1]) \o L_sep \o JsonItems(Tail(as))

\* json.dumps(content).encode('utf-8'); bytes are not JSON serializable
dumps(content) ==
    IF \E i \in 1..Len(content.attachments) : content.attachments[i].content # NoValue
    THEN Raises("TypeError")
    ELSE Returns(L_subject \o JsonString(content.subject)
                   \o L_body \o JsonString(content.body)
                   \o L_attachments \o <<91>> \o JsonItems(content.attachments) \o <<93, 125>>)

Parsed(v, next) == [ok |-> TRUE, val |-> v, next |-> next]
NotParsed == [ok |-> FALSE, val |-> <<>>, next |-> 0]

HexValue(c) == IF c \in 48..57 THEN c - 48 ELSE IF c \in 97..102 THEN c - 87
               ELSE IF c \in 65..70 THEN c - 55 ELSE 0 - 1

\* position after literal l at position i of b, 0 when it is not there
Expect(b, i, l) ==
    IF i > 0 /\ i + Len(l) - 1 <= Len(b) /\ SubSeq(b, i, i + Len(l) - 1) = l
    THEN i + Len(l) ELSE 0

\* the characters of a string up to its closing quote
RECURSIVE ReadString(_, _, _)
ReadString(b, i, acc) ==
    IF i > Len(b) \/ b[i] < 32 \/ b[i] > 127 THEN NotParsed
    ELSE IF b[i] = 34 THEN Parsed(acc, i + 1)
    ELSE IF b[i] # 92 THEN ReadString(b, i + 1, Append(acc, b[i]))
    ELSE IF i + 1 > Len(b) THEN NotParsed
    ELSE IF b[i + 1] \in {34, 92} THEN ReadString(b, i + 2, Append(acc, b[i + 1]))
    ELSE IF b[i + 1] = 110 THEN ReadString(b, i + 2, Append(acc, 10))
    ELSE IF b[i + 1] = 117 /\ i + 5 <= Len(b)
            /\ \A j \in 2..5 : HexValue(b[i + j]) >= 0
    THEN ReadString(b, i + 6, Append(acc, (HexValue(b[i + 2]) * 4096) + (HexValue(b[i + 3]) * 256)
                                            + (HexValue(b[i + 4]) * 16) + HexValue(b[i + 5])))
    ELSE NotParsed

ParseString(b, i) == IF Expect(b, i, <<34>>) = 0 THEN NotParsed ELSE ReadString(b, i + 1, <<>>)

ParseAttachment(b, i) ==
    LET f == ParseString(b, Expect(b, i, L_filename))
    IN IF ~f.ok \/ Expect(b, f.next, <<125>>) = 0 THEN NotParsed
       ELSE Parsed(Attachment(f.val, NoValue), f.next + 1)

RECURSIVE ParseItems(_, _, _)
ParseItems(b, i, acc) ==
    LET a == ParseAttachment(b, i)
    IN IF ~a.ok THEN NotParsed
       ELSE IF Expect(b, a.next, <<93>>) # 0 THEN Parsed(Append(acc, a.val), a.next + 1)
       ELSE IF Expect(b, a.next, L_sep) # 0 THEN ParseItems(b, a.next + 2, Append(acc, a.val))
       ELSE NotParsed

ParseList(b, i) ==
    IF Expect(b, i, <<91>>) = 0 THEN NotParsed
    ELSE IF Expect(b, i + 1, <<93>>) # 0 THEN Parsed(<<>>, i + 2)
    ELSE ParseItems(b, i + 1, <<>>)

\* json.loads(content_bytes.decode('utf-8')) of a content dict
loads(b) ==
    LET s == ParseString(b, Expect(b, 1, L_subject))
        y == IF s.ok THEN ParseString(b, Expect(b, s.next, L_body)) ELSE NotParsed
        a == IF y.ok THEN ParseList(b, Expect(b, y.next, L_attachments)) ELSE NotParsed
    IN IF a.ok /\ Expect(b, a.next, <<125>>) = Len(b) + 1
       THEN Returns([subject |-> s.val, body |-> y.val, attachments |-> a.val])
       ELSE Raises("JSONDecodeError")

\* ---- encrypt_email and decrypt_email
\* hashlib.sha256(km_key).hexdigest()[:16]
KeyFingerprint(key) == Digest("sha256-hex16", key, 8)

\* the envelope encrypt_email starts from; NoValue is an absent key
NewEnvelope(email_data, encryption_mode, timestamp) ==
    [to |-> email_data.to, cc |-> "", bcc |-> "",
     encryption_mode |-> encryption_mode, timestamp |-> timestamp,
     content |-> NoValue, nonce |-> NoValue, km_key_id |-> NoValue,
     pqc_public |-> NoValue, pqc_ciphertext |-> NoValue,
     mac |-> NoValue, headers |-> NoValue]

QuMailHeaders(encryption_mode, timestamp) ==
    [encryption |-> encryption_mode, version |-> "1.0", timestamp |-> timestamp]

\* kyber512: the keypair and the encapsulation made from the seed
KyberPublic(seed) == Digest("kyber-pk", <<seed>>, 800)
KyberCiphertext(seed) == Digest("kyber-ct", <<seed>>, 768)
KyberSecret(seed) == Digest("kyber-ss", <<seed>>, 32)
KyberPrivate(seed) == Digest("kyber-sk", <<seed>>, 1632)

\* a bytes object (immutable) and a bytearray
Bytes(v) == [type |-> "bytes", data |-> v]
ByteArray(v) == [type |-> "bytearray", data |-> v]
ZeroBytes(n) == Digest("zeros", <<>>, n)

\* CryptoManager.secure_wipe: the object after the call
secure_wipe(obj) ==
    IF obj.type = "bytearray" THEN [obj EXCEPT !.data = ZeroBytes(obj.data.size)] ELSE obj

EncryptOTP(env, content_bytes, km_key) ==
    LET c == otp_encrypt(content_bytes, km_key[1])
    IN IF ~Truthy(km_key) THEN RaisesMsg("ValueError", "KM key required for OTP encryption")
       ELSE IF c.raised # "" THEN c
       ELSE Returns([env EXCEPT
               !.content = Some(b64encode(c.value)),
               !.km_key_id = Some(KeyFingerprint(km_key[1])),
               !.mac = Some(compute_hmac(c.value, sha256(km_key[1] \o MAC_SUFFIX)))])

EncryptAES(env, content_bytes, km_key, nonce) ==
    LET c == aes_encrypt(content_bytes, sha256(km_key[1] \o AES_SUFFIX), nonce)
    IN IF ~Truthy(km_key) THEN RaisesMsg("ValueError", "KM key required for AES encryption")
       ELSE Returns([env EXCEPT
               !.content = Some(b64encode(c)),
               !.nonce = Some(b64encode(nonce)),
               !.km_key_id = Some(KeyFingerprint(km_key[1])),
               !.mac = Some(compute_hmac(c \o nonce, sha256(km_key[1] \o MAC_SUFFIX)))])

EncryptPQC(env, content_bytes, nonce, seed, pqc_available) ==
    LET c == aes_encrypt(content_bytes, KyberSecret(seed), nonce)
    IN IF ~pqc_available
       THEN RaisesMsg("RuntimeError", "PQC not available, falling back to AES")
       ELSE Returns([env EXCEPT
               !.content = Some(b64encode(c)),
               !.nonce = Some(b64encode(nonce)),
               !.pqc_public = Some(B64Text(KyberPublic(seed))),
               !.pqc_ciphertext = Some(B64Text(KyberCiphertext(seed))),
               !.mac = Some(compute_hmac(c \o nonce, KyberSecret(seed)))])

EncryptNONE(env, content_bytes) ==
    Returns([env EXCEPT
        !.content = Some(b64encode(content_bytes)),
        !.mac = Some(compute_hmac(content_bytes, DEFAULT_MAC_KEY))])

\* CryptoManager.encrypt_email; seed stands for the random bytes it draws
encrypt_email(email_data, encryption_mode, km_key, seed, pqc_available, timestamp) ==
    LET d == dumps(email_data)
        env == NewEnvelope(email_data, encryption_mode, timestamp)
        nonce == token_bytes(12, seed)
        r == IF d.raised # "" THEN d
             ELSE IF encryption_mode = "OTP" THEN EncryptOTP(env, d.value, km_key)
             ELSE IF encryption_mode = "AES" THEN EncryptAES(env, d.value, km_key, nonce)
             ELSE IF encryption_mode = "PQC"
                  THEN EncryptPQC(env, d.value, nonce, seed, pqc_available)
             ELSE IF encryption_mode = "NONE" THEN EncryptNONE(env, d.value)
             ELSE RaisesMsg("ValueError", "Unknown encryption mode")
    IN IF r.raised # "" THEN r
       ELSE Returns([r.value EXCEPT !.headers = Some(QuMailHeaders(encryption_mode, timestamp))])

\* the key buffers of the PQC branch when encrypt_email returns: the two
\* bytes objects it encrypted with, and the bytearray copies it wiped
PqcBuffers(seed) ==
    [shared_secret |-> Bytes(KyberSecret(seed)),
     pqc_secret |-> Bytes(KyberPrivate(seed)),
     wiped |-> <<secure_wipe(ByteArray(KyberSecret(seed))),
                 secure_wipe(ByteArray(KyberPrivate(seed)))>>]

\* decrypted_email: the copy of the envelope, updated with the content
DecryptedEmail(env, content) ==
    ("decryption_status" :> "success") @@ content @@ env

\* error_email: the copy of the envelope with the status and str(e)
ErrorEmail(env, msg) ==
    ("decryption_status" :> "error" @@ "decryption_error" :> msg) @@ env

\* the outcome of the try block with the calls made on the way, among
\* verify_hmac, otp_decrypt, aes_decrypt and json.loads
Did(r, did) == ("did" :> did) @@ r

\* base64.b64decode(email_data[field]); KeyError when the key is absent
Field(name, value) ==
    IF value = NoValue THEN RaisesMsg("KeyError", name) ELSE b64decode(value[1])

DecryptOTP(env, km_key) ==
    LET c == Field("content", env.content)
        mac_key == sha256(km_key[1] \o MAC_SUFFIX)
        p == otp_decrypt(c.value, km_key[1])
    IN IF ~Truthy(km_key)
       THEN Did(RaisesMsg("ValueError", "KM key required for OTP decryption"), <<>>)
       ELSE IF c.raised # "" THEN Did(c, <<>>)
       ELSE IF env.mac = NoValue THEN Did(RaisesMsg("KeyError", "mac"), <<>>)
       ELSE IF ~verify_hmac(c.value, mac_key, env.mac[1])
       THEN Did(RaisesMsg("ValueError", "MAC verification failed"), <<"verify_hmac">>)
       ELSE IF p.raised # "" THEN Did(p, <<"verify_hmac", "otp_decrypt">>)
       ELSE Did(loads(p.value), <<"verify_hmac", "otp_decrypt", "loads">>)

DecryptAES(env, km_key) ==
    LET c == Field("content", env.content)
        n == Field("nonce", env.nonce)
        mac_key == sha256(km_key[1] \o MAC_SUFFIX)
        p == aes_decrypt(c.value, sha256(km_key[1] \o AES_SUFFIX), n.value)
    IN IF ~Truthy(km_key)
       THEN Did(RaisesMsg("ValueError", "KM key required for AES decryption"), <<>>)
       ELSE IF c.raised # "" THEN Did(c, <<>>)
       ELSE IF n.raised # "" THEN Did(n, <<>>)
       ELSE IF env.mac = NoValue THEN Did(RaisesMsg("KeyError", "mac"), <<>>)
       ELSE IF ~verify_hmac(c.value \o n.value, mac_key, env.mac[1])
       THEN Did(RaisesMsg("ValueError", "MAC verification failed"), <<"verify_hmac">>)
       ELSE IF p.raised # "" THEN Did(p, <<"verify_hmac", "aes_decrypt">>)
       ELSE Did(loads(p.value), <<"verify_hmac", "aes_decrypt", "loads">>)

\* variant: the shared secret is decapsulated and the content decrypted
DecryptPQC_Decapsulates(env, pqc_available) ==
    LET c == Field("content", env.content)
        n == Field("nonce", env.nonce)
        k == IF env.pqc_ciphertext = NoValue THEN RaisesMsg("KeyError", "pqc_ciphertext")
             ELSE B64TextDecode(env.pqc_ciphertext[1])
        shared_secret == KyberSecret(k.value.data[1])
        p == aes_decrypt(c.value, shared_secret, n.value)
    IN IF ~pqc_available THEN Did(RaisesMsg("RuntimeError", "PQC not available"), <<>>)
       ELSE IF c.raised # "" THEN Did(c, <<>>)
       ELSE IF n.raised # "" THEN Did(n, <<>>)
       ELSE IF k.raised # "" THEN Did(k, <<>>)
       ELSE IF env.mac = NoValue THEN Did(RaisesMsg("KeyError", "mac"), <<>>)
       ELSE IF ~verify_hmac(c.value \o n.value, shared_secret, env.mac[1])
       THEN Did(RaisesMsg("ValueError", "MAC verification failed"), <<"verify_hmac">>)
       ELSE IF p.raised # "" THEN Did(p, <<"verify_hmac", "aes_decrypt">>)
       ELSE Did(loads(p.value), <<"verify_hmac", "aes_decrypt", "loads">>)

DecryptPQC(env, pqc_available) ==
    LET c == Field("content", env.content)
        n == Field("nonce", env.nonce)
        k == IF env.pqc_ciphertext = NoValue THEN RaisesMsg("KeyError", "pqc_ciphertext")
             ELSE B64TextDecode(env.pqc_ciphertext[1])
    IN IF ~pqc_available THEN Did(RaisesMsg("RuntimeError", "PQC not available"), <<>>)
       ELSE IF c.raised # "" THEN Did(c, <<>>)
       ELSE IF n.raised # "" THEN Did(n, <<>>)
       ELSE IF k.raised # "" THEN Did(k, <<>>)
       ELSE Did(RaisesMsg("ValueError", "PQC decryption requires recipient's secret key"),
                <<>>)

\* variant: the content is parsed first, the MAC verified afterwards
DecryptNONE_ParseFirst(env) ==
    LET c == Field("content", env.content)
    IN IF c.raised # "" THEN Did(c, <<>>)
       ELSE IF loads(c.value).raised # "" THEN Did(loads(c.value), <<"loads">>)
       ELSE IF env.mac = NoValue THEN Did(RaisesMsg("KeyError", "mac"), <<"loads">>)
       ELSE IF ~verify_hmac(c.value, DEFAULT_MAC_KEY, env.mac[1])
       THEN Did(RaisesMsg("ValueError", "MAC verification failed"), <<"loads", "verify_hmac">>)
       ELSE Did(loads(c.value), <<"loads", "verify_hmac">>)

DecryptNONE(env) ==
    LET c == Field("content", env.content)
    IN IF c.raised # "" THEN Did(c, <<>>)
       ELSE IF env.mac = NoValue THEN Did(RaisesMsg("KeyError", "mac"), <<>>)
       ELSE IF ~verify_hmac(c.value, DEFAULT_MAC_KEY, env.mac[1])
       THEN Did(RaisesMsg("ValueError", "MAC verification failed"), <<"verify_hmac">>)
       ELSE Did(loads(c.value), <<"verify_hmac", "loads">>)

\* the try block of decrypt_email up to the mode branches' end
TryDecrypt(env, km_key, pqc_available) ==
    IF env.encryption_mode = "OTP" THEN DecryptOTP(env, km_key)
    ELSE IF env.encryption_mode = "AES" THEN DecryptAES(env, km_key)
    ELSE IF env.encryption_mode = "PQC" THEN DecryptPQC(env, pqc_available)
    ELSE IF env.encryption_mode = "NONE" THEN DecryptNONE(env)
    ELSE Did(RaisesMsg("ValueError", "Unknown encryption mode"), <<>>)

\* the exception classes the code can raise here; all derive from Exception
ExceptionClasses ==
    {"ValueError", "KeyError", "TypeError", "RuntimeError", "binascii.Error",
     "JSONDecodeError", "InvalidTag"}

\* variant: except ValueError, which binascii.Error and JSONDecodeError derive from
CaughtByDecrypt_ValueErrorOnly(e) == e \in {"ValueError", "binascii.Error", "JSONDecodeError"}

\* except Exception
CaughtByDecrypt(e) == e \in ExceptionClasses

\* the end of decrypt_email after its try block ended as r: the dict it
\* returns, or the exception that gets past its handler
AfterTry(env, r) ==
    IF r.raised = "" THEN Did(Returns(DecryptedEmail(env, r.value)), r.did)
    ELSE IF CaughtByDecrypt(r.raised) THEN Did(Returns(ErrorEmail(env, r.msg)), r.did)
    ELSE r

\* CryptoManager.decrypt_email
decrypt_email(env, km_key, pqc_available) ==
    AfterTry(env, TryDecrypt(env, km_key, pqc_available))

\* no encrypt_email call under way
NoCrypto ==
    [phase |-> "idle", email_data |-> NoValue, encryption_mode |-> "", km_key |-> NoValue,
     pqc_available |-> FALSE, raised |-> "", msg |-> "", encrypted |-> NoValue,
     buffers |-> NoValue, tampered |-> <<>>, dec_key |-> NoValue, decrypted |-> NoValue,
     did |-> <<>>]


\* ------------------------------------------------------------- main.py
\* the answer of the backend to its last request: the handler, the user, the
\* HTTP status, and what the handler worked with
Reply(op, user, status) ==
    [op |-> op, user |-> user, status |-> status, error |-> "", km_session_id |-> NoId,
     encryption_mode |-> "", plaintext |-> NoValue, km_key |-> NoValue,
     encrypted |-> FALSE, sent |-> FALSE, result |-> "", emails |-> <<>>, km_keys |-> <<>>,
     sent_count |-> 0, total_queued |-> 0]

\* the backend before its first request: no user and no email in the
\* database, an empty INBOX
NoBackend ==
    [users |-> <<>>, emails |-> <<>>, inbox |-> [p \in Principals |-> <<>>],
     reply |-> Reply("init", "", 0)]

KMInit ==
    /\ now = 0
    /\ ticks = 0
    /\ app = FALSE
    /\ running = FALSE
    /\ cleanup_task = None
    /\ sessions = <<>>
    /\ key_storage = {}
    /\ keys = <<>>
    /\ bytearrays = <<>>
    /\ next_session = 1
    /\ next_key = 1
    /\ resp = Response("init", NoId, NoId, 0, NoValue)
    /\ consume_ok = [k \in KeyIds |-> 0]
    /\ issued = [k \in KeyIds |-> NoValue]
    /\ tasks = [t \in AllTasks |-> IF t = SweepTask THEN SweepStart ELSE IdleTask]
    /\ loop = NoValue

Init == KMInit /\ crypto = NoCrypto /\ backend = NoBackend

\* ------------------------------------------------------- table helpers
Put(f, x, v) == [y \in DOMAIN f \cup {x} |-> IF y = x THEN v ELSE f[y]]

Drop(f, X) == [y \in DOMAIN f \ X |-> f[y]]

\* ----------------------------------------------------------------- clock
Tick(d) ==
    /\ ticks < MaxTicks
    /\ now' = now + d
    /\ ticks' = ticks + 1
    /\ resp' = Response("tick", NoId, NoId, 0, NoValue)
    /\ UNCHANGED <<app, running, cleanup_task, kmState, next_session, next_key, consume_ok, issued, evloop, crypto, backend>>

\* ------------------------------------------------------------- lifecycle
\* KeyManagerMock.start: builds the KM app and its routes
start ==
    /\ ~app
    /\ app' = TRUE
    /\ resp' = Response("start", NoId, NoId, 0, NoValue)
    /\ UNCHANGED <<now, ticks, running, cleanup_task, kmState, next_session, next_key, consume_ok, issued, evloop, crypto, backend>>

\* startup half of the KM app's lifespan, entered when the app is served
lifespan_startup ==
    /\ app
    /\ cleanup_task # "scheduled"
    /\ running' = TRUE
    /\ cleanup_task' = "scheduled"
    /\ resp' = Response("lifespan_startup", NoId, NoId, 0, NoValue)
    /\ UNCHANGED <<now, ticks, app, kmState, next_session, next_key, consume_ok, issued, evloop, crypto, backend>>

\* Task.cancel() on self.cleanup_task, when there is one
CancelledTask == IF cleanup_task = None THEN None ELSE "cancelled"

\* shutdown half of the KM app's lifespan
lifespan_shutdown ==
    /\ app
    /\ cleanup_task = "scheduled"
    /\ running' = FALSE
    /\ cleanup_task' = CancelledTask
    /\ resp' = Response("lifespan_shutdown", NoId, NoId, 0, NoValue)
    /\ UNCHANGED <<now, ticks, app, kmState, next_session, next_key, consume_ok, issued, evloop, crypto, backend>>

\* every key stop() wipes: those of the sessions and those of key_storage
KeysWipedByStop == UNION {sessions[sid].current_keys : sid \in DOMAIN sessions} \cup key_storage

\* KeyManagerMock.stop
stop ==
    /\ running' = FALSE
    /\ cleanup_task' = CancelledTask
    /\ keys' = KeysAfterWipe(KeysWipedByStop)
    /\ bytearrays' = BytesAfterWipe(KeysWipedByStop)
    /\ sessions' = Drop(sessions, DOMAIN sessions)
    /\ key_storage' = {}
    /\ resp' = Response("stop", NoId, NoId, 0, NoValue)
    /\ UNCHANGED <<now, ticks, app, next_session, next_key, consume_ok, issued, evloop, crypto, backend>>

\* ---------------------------------------------------------- authenticate
\* the session both authenticate entry points create, while fewer than
\* limit sessions were created
CreateSessionWithin(limit, op, user_email) ==
    /\ next_session <= limit
    /\ sessions' = Put(sessions, next_session, NewSession(user_email, now))
    /\ next_session' = next_session + 1
    /\ resp' = Response(op, next_session, NoId, OK, NoValue)
    /\ UNCHANGED <<now, ticks, app, running, cleanup_task, key_storage, keys, bytearrays,
                   next_key, consume_ok, issued, evloop, crypto, backend>>

CreateSession(op, user_email) == CreateSessionWithin(MaxSessions, op, user_email)

\* POST /api/v1/authenticate
authenticate_route(user_email) ==
    /\ app
    /\ CreateSession("authenticate", user_email)

\* KeyManagerMock.authenticate
authenticate(user_email) == CreateSession("km.authenticate", user_email)

\* ---------------------------------------------------------------- getKey
\* key_size of the getKey route after its default is applied
RouteKeySize(key_size_param) ==
    IF key_size_param = NoValue THEN default_key_size ELSE key_size_param[1]

\* HTTP status of GET /api/v1/getKey at time t
GetKeyRouteStatus(sid, key_size_param, t) ==
    IF ~SessionUsable(sid, t) THEN 401
    ELSE IF ~KeySizeOk(RouteKeySize(key_size_param)) THEN 400
    ELSE IF KeyLimitReached(sessions[sid]) THEN 429
    ELSE OK

\* outcome of KeyManagerMock.get_key at time t
GetKeyStatus(sid, t) == IF ~SessionUsable(sid, t) THEN ValueError ELSE OK

\* the part both issuance entry points share: build the key, add it to the
\* session and to key_storage
StoreNewKey(op, sid, size, seed) ==
    LET kid == next_key
        key_data == token_bytes(size, seed)
        k == NewEphemeralKey(key_data, key_expiry_seconds, now)
    IN /\ next_key <= MaxKeys
       /\ keys' = Put(keys, kid, [k EXCEPT !.session_id = sid])
       /\ bytearrays' = Put(bytearrays, kid, key_data)
       /\ sessions' = [sessions EXCEPT ![sid] = add_key(@, kid, now)]
       /\ key_storage' = key_storage \cup {kid}
       /\ next_key' = kid + 1
       /\ resp' = Response(op, sid, kid, OK, Some(key_data))
       /\ issued' = [issued EXCEPT ![kid] = Some(key_data)]

Rejected(op, sid, status) ==
    /\ resp' = Response(op, sid, NoId, status, NoValue)
    /\ UNCHANGED <<kmState, next_key, issued, evloop, crypto, backend>>

\* GET /api/v1/getKey
get_key_route(sid, key_size_param, seed) ==
    LET status == GetKeyRouteStatus(sid, key_size_param, now)
    IN /\ app
       /\ IF status # OK THEN Rejected("getKey", sid, status)
          ELSE StoreNewKey("getKey", sid, RouteKeySize(key_size_param), seed)
       /\ UNCHANGED <<now, ticks, app, running, cleanup_task, next_session, consume_ok, evloop, crypto, backend>>

\* KeyManagerMock.get_key
get_key(sid, key_size, seed) ==
    LET status == GetKeyStatus(sid, now)
    IN /\ IF status # OK THEN Rejected("km.get_key", sid, status)
          ELSE StoreNewKey("km.get_key", sid, key_size, seed)
       /\ UNCHANGED <<now, ticks, app, running, cleanup_task, next_session, consume_ok, evloop, crypto, backend>>

\* ------------------------------------------------------------ consumeKey
\* variant: the key is looked up in key_storage, whatever session holds it
ConsumeFindsKey_AnySession(sid, kid, t) ==
    /\ kid \in key_storage
    /\ KeyIsValid(keys[kid], t)

\* KMSession.consume_key finds the key and its validity check passes at t
ConsumeFindsKey(sid, kid, t) ==
    /\ kid \in sessions[sid].current_keys
    /\ KeyIsValid(keys[kid], t)

\* HTTP status of POST /api/v1/consumeKey.  t1 is the clock at the validity
\* check of KMSession.consume_key, t2 at the one inside EphemeralKey.consume
ConsumeStatus(sid, kid, t1, t2) ==
    IF ~ConsumeSessionOk(sid) THEN 401
    ELSE IF ~ConsumeFindsKey(sid, kid, t1) THEN 404   \* consume_key returns None
    ELSE IF ~KeyIsValid(keys[kid], t2) THEN 500       \* consume raises ValueError
    ELSE IF keys[kid].key_data = NoValue THEN 500     \* bytes(None) raises TypeError
    ELSE IF ~Truthy(keys[kid].key_data) THEN 404      \* empty material is falsy
    ELSE OK

\* EphemeralKey.consume gets past its own validity check and sets the flag
ConsumeSetsFlag(sid, kid, t1, t2) ==
    /\ ConsumeSessionOk(sid)
    /\ ConsumeFindsKey(sid, kid, t1)
    /\ KeyIsValid(keys[kid], t2)

\* variant: consumption is never counted
ConsumeCounts_Never(sid, kid, t1, t2) == FALSE

\* KMSession.consume_key gets the material back and counts the key
ConsumeCounts(sid, kid, t1, t2) ==
    /\ ConsumeSetsFlag(sid, kid, t1, t2)
    /\ keys[kid].key_data # NoValue

\* POST /api/v1/consumeKey
consume_key_route(sid, kid, gap) ==
    LET t1 == now
        t2 == now + gap
        status == ConsumeStatus(sid, kid, t1, t2)
    IN /\ app
       /\ gap = 0 \/ ticks < MaxTicks
       /\ now' = t2
       /\ ticks' = IF gap = 0 THEN ticks ELSE ticks + 1
       /\ sessions' =
            IF ~ConsumeSessionOk(sid) THEN sessions
            ELSE [sessions EXCEPT ![sid] =
                    [update_activity(@, t1) EXCEPT !.keys_consumed =
                        IF ConsumeCounts(sid, kid, t1, t2) THEN @ + 1 ELSE @]]
       /\ keys' = IF ConsumeSetsFlag(sid, kid, t1, t2)
                  THEN [keys EXCEPT ![kid].consumed = TRUE] ELSE keys
       /\ resp' = Response("consumeKey", sid, kid, status, NoValue)
       /\ consume_ok' = IF status = OK THEN [consume_ok EXCEPT ![kid] = @ + 1] ELSE consume_ok
       /\ UNCHANGED <<app, running, cleanup_task, key_storage, bytearrays, next_session, next_key,
                      issued, evloop, crypto, backend>>

\* ---------------------------------------------------------- closeSession
\* HTTP status of DELETE /api/v1/session/{session_id}
CloseStatus(sid) == IF sid \notin DOMAIN sessions THEN 404 ELSE OK

\* a close that leaves the session's keys in key_storage
StorageAfterClose_KeepsKeys(s) == key_storage

\* key_storage after the route's loop over the session's keys
StorageAfterClose(s) == key_storage \ s.current_keys

\* DELETE /api/v1/session/{session_id}
close_session(sid) ==
    /\ app
    /\ IF CloseStatus(sid) # OK
       THEN /\ resp' = Response("closeSession", sid, NoId, 404, NoValue)
            /\ UNCHANGED kmState
       ELSE LET s == sessions[sid]
            IN /\ keys' = KeysAfterWipe(s.current_keys)
               /\ bytearrays' = BytesAfterWipe(s.current_keys)
               /\ key_storage' = StorageAfterClose(s)
               /\ sessions' = Drop(sessions, {sid})
               /\ resp' = Response("closeSession", sid, NoId, OK, NoValue)
    /\ UNCHANGED <<now, ticks, app, running, cleanup_task, next_session, next_key, consume_ok, issued, evloop, crypto, backend>>

\* ----------------------------------------------------------- cleanup pass
\* ids the pass's scan of key_storage wipes and deletes at time t
StorageExpiredKeys(t) == {k \in key_storage : KeyIsExpired(keys[k], t)}

\* sessions the pass deletes: expired at time t
ExpiredSessions(t) == {sid \in DOMAIN sessions : SessionIsExpired(sessions[sid], t)}

\* variant: the pass wipes every key of every session
SessionWipedKeys_EveryKey(t) == UNION {sessions[sid].current_keys : sid \in DOMAIN sessions}

\* every key some session's part of the pass wipes at time t
SessionWipedKeys(t) ==
    UNION {IF sid \in ExpiredSessions(t) THEN sessions[sid].current_keys
                                         ELSE SessionExpiredKeys(sessions[sid], t)
           : sid \in DOMAIN sessions}

\* the session table after the pass's scan of the sessions at time t
\* variant: the pass keeps the sessions it found expired
SessionsAfterCleanup_KeepsExpired(t) ==
    [sid \in DOMAIN sessions |-> cleanup_expired_keys(sessions[sid], t)]

SessionsAfterCleanup(t) ==
    [sid \in DOMAIN sessions \ ExpiredSessions(t) |-> cleanup_expired_keys(sessions[sid], t)]

\* what the pass logs: the number of keys and of sessions it removed
CleanupLog(t1, t2) == <<Cardinality(StorageExpiredKeys(t1)), Cardinality(ExpiredSessions(t2))>>

\* one iteration of KeyManagerMock._cleanup_loop.  t1 is the clock during the
\* scan of key_storage, t2 the clock during the scan of the sessions
cleanup_pass(gap) ==
    LET t1 == now
        t2 == now + gap
        wiped == StorageExpiredKeys(t1) \cup SessionWipedKeys(t2)
    IN /\ running
       /\ cleanup_task = "scheduled"
       /\ gap = 0 \/ ticks < MaxTicks
       /\ now' = t2
       /\ ticks' = IF gap = 0 THEN ticks ELSE ticks + 1
       /\ keys' = KeysAfterWipe(wiped)
       /\ bytearrays' = BytesAfterWipe(wiped)
       /\ key_storage' = key_storage \ StorageExpiredKeys(t1)
       /\ sessions' = SessionsAfterCleanup(t2)
       /\ resp' = [Response("cleanup", NoId, NoId, 0, NoValue) EXCEPT
                      !.removed = CleanupLog(t1, t2)]
       /\ UNCHANGED <<app, running, cleanup_task, next_session, next_key, consume_ok, issued, evloop, crypto, backend>>

\* ------------------------------------------------------------------ Next
Next ==
    \/ \E d \in TickSteps : Tick(d)
    \/ start
    \/ lifespan_startup
    \/ lifespan_shutdown
    \/ stop
    \/ \E e \in Principals : authenticate_route(e)
    \/ \E e \in Principals : authenticate(e)
    \/ \E sid \in SessionIds, n \in RouteKeySizes, seed \in Seeds : get_key_route(sid, n, seed)
    \/ \E sid \in SessionIds, n \in ApiKeySizes, seed \in Seeds : get_key(sid, n, seed)
    \/ \E sid \in SessionIds, kid \in KeyIds, gap \in ReadGaps : consume_key_route(sid, kid, gap)
    \/ \E sid \in SessionIds : close_session(sid)
    \/ \E gap \in ReadGaps : cleanup_pass(gap)


Spec == Init /\ [][Next]_vars

\* ------------------------------------------------------ asyncio event loop
\* The handlers are coroutines of one event loop: a coroutine that holds the
\* loop runs until it awaits or returns.  Below, consumeKey, km.get_key,
\* closeSession and the cleanup pass are cut into the statements that touch
\* the tables, two or three steps each; the clock may advance between any
\* two steps.

\* variant: consume_key would await between its validity check and consume()
AwaitPoints_InsideConsume == {"s_sleep", "c_lookup"}

\* the statements after which a coroutine gives the loop back: the only
\* await in km_mock.py is the sleep that ends a cleanup pass
AwaitPoints == {"s_sleep"}

\* coroutine t may run its next statement
CanRun(t) == loop \in {NoValue, Some(t)}

\* a request coroutine can start in slot t, the first free one
CanStart(t) ==
    /\ loop = NoValue
    /\ tasks[t].h = "idle"
    /\ \A u \in TaskIds : u < t => tasks[u].h # "idle"

\* coroutine t has run statement L and goes on as task record rec
Goto(t, L, rec) ==
    /\ tasks' = [tasks EXCEPT ![t] = rec]
    /\ loop' = IF L \in AwaitPoints THEN NoValue ELSE Some(t)

\* coroutine t returns (or raises) with response r
Finish(t, r) ==
    /\ tasks' = [tasks EXCEPT ![t] = IdleTask]
    /\ loop' = NoValue
    /\ resp' = r

At(t, h, pc) == tasks[t].h = h /\ tasks[t].pc = pc /\ CanRun(t)

lifeVars == <<app, running, cleanup_task>>
clockVars == <<now, ticks>>
histVars == <<consume_ok, issued>>

\* handlers without an await run whole while the loop is free
run_start == loop = NoValue /\ start

run_lifespan_startup == loop = NoValue /\ lifespan_startup

run_authenticate(user_email) == loop = NoValue /\ authenticate(user_email)

\* consumeKey: the session check, KMSession.get_key and the validity check
\* of consume_key
c_lookup(t, sid, kid) ==
    /\ app
    /\ CanStart(t)
    /\ sessions' = IF ConsumeSessionOk(sid)
                   THEN [sessions EXCEPT ![sid] = update_activity(@, now)] ELSE sessions
    /\ IF ~ConsumeSessionOk(sid)
       THEN Finish(t, Response("consumeKey", sid, kid, 401, NoValue))
       ELSE IF ~ConsumeFindsKey(sid, kid, now)
       THEN Finish(t, Response("consumeKey", sid, kid, 404, NoValue))
       ELSE /\ Goto(t, "c_lookup", [IdleTask EXCEPT !.h = "consumeKey", !.pc = "c_set",
                                                     !.sid = sid, !.kid = kid])
            /\ UNCHANGED resp
    /\ UNCHANGED <<crypto, backend, clockVars, lifeVars, key_storage, keys, bytearrays,
                   next_session, next_key, histVars>>

\* consumeKey: EphemeralKey.consume, the count of consume_key and the answer
\* of the route
c_set(t) ==
    LET sid == tasks[t].sid
        kid == tasks[t].kid
        status == IF ~KeyIsValid(keys[kid], now) \/ keys[kid].key_data = NoValue THEN 500
                  ELSE IF ~Truthy(keys[kid].key_data) THEN 404
                  ELSE OK
        counted == KeyIsValid(keys[kid], now) /\ keys[kid].key_data # NoValue
    IN /\ At(t, "consumeKey", "c_set")
       /\ keys' = IF KeyIsValid(keys[kid], now)
                  THEN [keys EXCEPT ![kid].consumed = TRUE] ELSE keys
       /\ sessions' = IF counted /\ sid \in DOMAIN sessions
                      THEN [sessions EXCEPT ![sid].keys_consumed = @ + 1] ELSE sessions
       /\ Finish(t, Response("consumeKey", sid, kid, status, NoValue))
       /\ consume_ok' = IF status = OK THEN [consume_ok EXCEPT ![kid] = @ + 1] ELSE consume_ok
       /\ UNCHANGED <<crypto, backend, clockVars, lifeVars, key_storage, bytearrays,
                      next_session, next_key, issued>>

\* km.get_key: the session check, the new EphemeralKey, and KMSession.add_key
\* that puts it in the session's map
g_add(t, sid, size, seed) ==
    LET kid == next_key
        key_data == token_bytes(size, seed)
        k == NewEphemeralKey(key_data, key_expiry_seconds, now)
    IN /\ CanStart(t)
       /\ IF GetKeyStatus(sid, now) # OK
          THEN /\ Finish(t, Response("km.get_key", sid, NoId, ValueError, NoValue))
               /\ UNCHANGED <<sessions, keys, bytearrays, next_key>>
          ELSE /\ next_key <= MaxKeys
               /\ keys' = Put(keys, kid, [k EXCEPT !.session_id = sid])
               /\ bytearrays' = Put(bytearrays, kid, key_data)
               /\ sessions' = [sessions EXCEPT ![sid] = add_key(@, kid, now)]
               /\ next_key' = kid + 1
               /\ Goto(t, "g_add", [IdleTask EXCEPT !.h = "km.get_key", !.pc = "g_store",
                                                    !.sid = sid, !.kid = kid])
               /\ UNCHANGED resp
       /\ UNCHANGED <<crypto, backend, clockVars, lifeVars, key_storage, next_session, histVars>>

\* km.get_key: the key goes into key_storage and its material to the caller
g_store(t) ==
    LET sid == tasks[t].sid
        kid == tasks[t].kid
    IN /\ At(t, "km.get_key", "g_store")
       /\ key_storage' = key_storage \cup {kid}
       /\ Finish(t, Response("km.get_key", sid, kid, OK, Some(bytearrays[kid])))
       /\ issued' = [issued EXCEPT ![kid] = Some(bytearrays[kid])]
       /\ UNCHANGED <<crypto, backend, clockVars, lifeVars, sessions, keys, bytearrays,
                      next_session, next_key, consume_ok>>

\* closeSession: the session lookup, then every key of the session is wiped
\* and taken out of key_storage
x_wipe(t, sid) ==
    /\ app
    /\ CanStart(t)
    /\ IF CloseStatus(sid) # OK
       THEN /\ Finish(t, Response("closeSession", sid, NoId, 404, NoValue))
            /\ UNCHANGED <<key_storage, keys, bytearrays>>
       ELSE /\ keys' = KeysAfterWipe(sessions[sid].current_keys)
            /\ bytearrays' = BytesAfterWipe(sessions[sid].current_keys)
            /\ key_storage' = StorageAfterClose(sessions[sid])
            /\ Goto(t, "x_wipe", [IdleTask EXCEPT !.h = "closeSession", !.pc = "x_del",
                                                  !.sid = sid])
            /\ UNCHANGED resp
    /\ UNCHANGED <<crypto, backend, clockVars, lifeVars, sessions, next_session, next_key, histVars>>

\* closeSession: the session is deleted
x_del(t) ==
    /\ At(t, "closeSession", "x_del")
    /\ sessions' = Drop(sessions, {tasks[t].sid})
    /\ Finish(t, Response("closeSession", tasks[t].sid, NoId, OK, NoValue))
    /\ UNCHANGED <<crypto, backend, clockVars, lifeVars, key_storage, keys, bytearrays,
                   next_session, next_key, histVars>>

SweepAt(pc) == running /\ cleanup_task = "scheduled" /\ At(SweepTask, "cleanup", pc)

\* cleanup pass: the expired keys of key_storage are wiped and deleted
s_scan ==
    /\ SweepAt("s_scan")
    /\ keys' = KeysAfterWipe(StorageExpiredKeys(now))
    /\ bytearrays' = BytesAfterWipe(StorageExpiredKeys(now))
    /\ key_storage' = key_storage \ StorageExpiredKeys(now)
    /\ Goto(SweepTask, "s_scan", [tasks[SweepTask] EXCEPT
                                     !.pc = "s_sessions",
                                     !.expired_keys = StorageExpiredKeys(now)])
    /\ UNCHANGED <<crypto, backend, clockVars, lifeVars, sessions, next_session, next_key, resp, histVars>>

\* cleanup pass: the scan of the sessions and the deletion of the expired ones
s_sessions ==
    /\ SweepAt("s_sessions")
    /\ keys' = KeysAfterWipe(SessionWipedKeys(now))
    /\ bytearrays' = BytesAfterWipe(SessionWipedKeys(now))
    /\ sessions' = SessionsAfterCleanup(now)
    /\ Goto(SweepTask, "s_sessions", [SweepStart EXCEPT !.pc = "s_sleep"])
    /\ resp' = [Response("cleanup", NoId, NoId, 0, NoValue) EXCEPT
                   !.removed = <<Cardinality(tasks[SweepTask].expired_keys),
                                 Cardinality(ExpiredSessions(now))>>]
    /\ UNCHANGED <<crypto, backend, clockVars, lifeVars, key_storage, next_session, next_key, histVars>>

\* cleanup pass: await asyncio.sleep(60), then the next pass
s_sleep ==
    /\ SweepAt("s_sleep")
    /\ Goto(SweepTask, "s_sleep", SweepStart)
    /\ UNCHANGED <<crypto, backend, clockVars, lifeVars, kmState, next_session, next_key, resp, histVars>>

LoopNext ==
    \/ \E d \in TickSteps : Tick(d)
    \/ run_start
    \/ run_lifespan_startup
    \/ \E e \in Principals : run_authenticate(e)
    \/ \E t \in TaskIds, sid \in SessionIds, kid \in KeyIds : c_lookup(t, sid, kid)
    \/ \E t \in TaskIds : c_set(t)
    \/ \E t \in TaskIds, sid \in SessionIds, size \in ApiKeySizes, seed \in Seeds :
          g_add(t, sid, size, seed)
    \/ \E t \in TaskIds : g_store(t)
    \/ \E t \in TaskIds, sid \in SessionIds : x_wipe(t, sid)
    \/ \E t \in TaskIds : x_del(t)
    \/ s_scan
    \/ s_sessions
    \/ s_sleep

LoopSpec == Init /\ [][LoopNext]_vars

\* ------------------------------------- encrypt_email, then decrypt_email
\* the keys tried with a mode: all of them where the key is looked at byte
\* by byte, fewer where it is only hashed or not used
KeysFor(m) ==
    IF m = "OTP" THEN KmKeys
    ELSE IF m = "AES" THEN {NoValue, Some(<<>>), Some(token_bytes(default_key_size, 165))}
    ELSE {NoValue, Some(token_bytes(default_key_size, 165))}

\* PQC_AVAILABLE: only the PQC branches read it
PqcFor(m) == IF m = "PQC" THEN BOOLEAN ELSE {TRUE}

CryptoInputs ==
    UNION {{[NoCrypto EXCEPT !.phase = "plain", !.email_data = Some(e), !.encryption_mode = m,
                             !.km_key = k, !.pqc_available = p] :
               e \in EmailData, k \in KeysFor(m), p \in PqcFor(m)} : m \in Modes}

CryptoInit == KMInit /\ crypto \in CryptoInputs /\ backend = NoBackend

kmVars == <<now, ticks, app, running, cleanup_task, kmState, next_session, next_key,
            resp, consume_ok, issued, evloop, backend>>

call_encrypt_email(seed) ==
    LET r == encrypt_email(crypto.email_data[1], crypto.encryption_mode, crypto.km_key,
                           seed, crypto.pqc_available, now)
    IN /\ crypto.phase = "plain"
       /\ crypto' = IF r.raised # ""
                    THEN [crypto EXCEPT !.phase = "raised", !.raised = r.raised, !.msg = r.msg]
                    ELSE [crypto EXCEPT !.phase = "encrypted", !.encrypted = Some(r.value),
                                        !.buffers = IF crypto.encryption_mode = "PQC"
                                                    THEN Some(PqcBuffers(seed)) ELSE NoValue]
       /\ UNCHANGED kmVars

\* ---- the envelope on its way from encrypt_email to decrypt_email
TamperFields == {"content", "mac"}
\* one of the unused bits of the last character set, a data bit flipped, a
\* character replaced by one outside the alphabet, the field removed
TamperKinds == {"spare", "data", "junk", "missing"}

TamperedContent(text, kind) ==
    IF kind = "spare" THEN [text EXCEPT ![Len(text) - Pads(text)] = @ + 1]
    ELSE IF kind = "data" THEN [text EXCEPT ![1] = IF @ % 2 = 0 THEN @ + 1 ELSE @ - 1]
    ELSE [text EXCEPT ![1] = Junk]

TamperedMac(text, kind) ==
    IF kind = "spare" THEN [text EXCEPT !.spare = 1]
    ELSE IF kind = "data" THEN [text EXCEPT !.b64 = Digest("bit-flipped", <<@>>, @.size)]
    ELSE [text EXCEPT !.alphabet = FALSE]

Tampered(env, field, kind) ==
    IF kind = "missing" THEN [env EXCEPT ![field] = NoValue]
    ELSE IF field = "content"
    THEN [env EXCEPT !.content = Some(TamperedContent(env.content[1], kind))]
    ELSE [env EXCEPT !.mac = Some(TamperedMac(env.mac[1], kind))]

\* somebody changes the content or the mac of the stored envelope
tamper(field, kind) ==
    /\ crypto.phase = "encrypted"
    /\ crypto.tampered = <<>>
    /\ field = "content" /\ kind = "spare" => Pads(crypto.encrypted[1].content[1]) > 0
    /\ crypto' = [crypto EXCEPT !.tampered = <<field, kind>>,
                                !.encrypted = Some(Tampered(crypto.encrypted[1], field, kind))]
    /\ UNCHANGED kmVars

\* somebody relabels the envelope with a mode decrypt_email does not know
tamper_mode ==
    /\ crypto.phase = "encrypted"
    /\ crypto.tampered = <<>>
    /\ crypto' = [crypto EXCEPT !.tampered = <<"encryption_mode", "data">>,
                                !.encrypted = Some([crypto.encrypted[1] EXCEPT
                                                      !.encryption_mode = "ROT13"])]
    /\ UNCHANGED kmVars

\* decrypt_email of the envelope, with the key encrypt_email got or with None
call_decrypt_email(with_key) ==
    LET km_key == IF with_key THEN crypto.km_key ELSE NoValue
    IN /\ crypto.phase = "encrypted"
       /\ \E r \in {decrypt_email(crypto.encrypted[1], km_key, crypto.pqc_available)} :
             crypto' = [crypto EXCEPT
                          !.phase = "decrypted",
                          !.dec_key = km_key,
                          !.raised = r.raised,
                          !.msg = r.msg,
                          !.decrypted = IF r.raised = "" THEN Some(r.value) ELSE NoValue,
                          !.did = r.did]
       /\ UNCHANGED kmVars

CryptoNext ==
    \/ \E seed \in Seeds : call_encrypt_email(seed)
    \/ \E field \in TamperFields, kind \in TamperKinds : tamper(field, kind)
    \/ tamper_mode
    \/ \E with_key \in BOOLEAN : call_decrypt_email(with_key)

CryptoSpec == CryptoInit /\ [][CryptoNext]_vars

\* ------------------------------------------------------- several sessions
\* The key manager with one session more than Spec has, for two users.
MaxPeers == MaxSessions + 1
PeerIds == 1..MaxPeers
PeerPrincipals == {"alice@x.com", "bob@x.com"}

\* POST /api/v1/authenticate, for one session more
peer_authenticate(user_email) ==
    /\ app
    /\ CreateSessionWithin(MaxPeers, "authenticate", user_email)

ScopeNext ==
    \/ \E d \in TickSteps : Tick(d)
    \/ start
    \/ \E e \in PeerPrincipals : peer_authenticate(e)
    \/ \E sid \in PeerIds, seed \in Seeds : get_key_route(sid, NoValue, seed)
    \/ \E sid \in PeerIds, seed \in Seeds : get_key(sid, default_key_size, seed)
    \/ \E sid \in PeerIds, kid \in KeyIds, gap \in ReadGaps : consume_key_route(sid, kid, gap)
    \/ \E sid \in PeerIds : close_session(sid)

ScopeSpec == Init /\ [][ScopeNext]_vars

\* ------------------------------------------------------- QuMail backend
\* The request handlers of main.py over the key manager, the crypto manager,
\* the users and emails tables and the user's INBOX.  The backend never serves
\* the KM app, so no cleanup pass runs; a restart of the process is the
\* lifespan's stop() followed by a new start.

\* messages an INBOX holds
MaxMails == 1
\* seeds of the random source: two draws may differ
KeySeeds == {165, 166}
\* encryption_mode values of the compose form
ComposeModes == {"OTP", "AES", "NONE"}
\* the modes for which compose_email and get_inbox ask the key manager
KeyedModes == {"OTP", "AES"}
\* the compose form, sent to the user's own address
Compositions ==
    {[to |-> e, subject |-> <<104>>, body |-> <<>>, attachments |-> <<>>] : e \in Principals}
\* clock advances between two requests
RequestGaps == {1, session_timeout}

\* a header line longer than this is folded by the MIME generator
MaxLineLen == 78
\* the value of a header as the parsed message gives it back: a value that
\* does not fit on the header's line comes back behind a line break and a space
HeaderValue(name_len, text) ==
    IF name_len + 2 + Len(text) > MaxLineLen THEN <<Junk, Junk>> \o text ELSE text

\* EmailService.send_email then _parse_email_message: the email_data dict
\* fetch_inbox builds from the message send_email made of the envelope
Delivered(env) ==
    LET qumail == env.encryption_mode # "NONE"
        has_content == env.content # NoValue /\ env.content[1] # <<>>
    IN [env EXCEPT
          !.content = IF qumail /\ has_content THEN Some(HeaderValue(16, env.content[1]))
                      ELSE NoValue,
          !.nonce = IF qumail THEN env.nonce ELSE NoValue,
          !.mac = IF qumail THEN env.mac ELSE NoValue,
          !.km_key_id = IF qumail THEN env.km_key_id ELSE NoValue,
          !.pqc_public = NoValue,
          !.pqc_ciphertext = NoValue,
          !.headers = NoValue]

\* POST /api/auth/login.  valid is the outcome of validate_credentials
login(email, valid) ==
    LET sid == next_session
        users == IF email \in DOMAIN backend.users THEN backend.users
                 ELSE Put(backend.users, email, sid)
    IN /\ IF ~valid
          THEN /\ backend' = [backend EXCEPT !.reply = Reply("login", email, 401)]
               /\ UNCHANGED <<sessions, next_session, resp>>
          ELSE /\ next_session <= MaxPeers
               /\ sessions' = Put(sessions, sid, NewSession(email, now))
               /\ next_session' = sid + 1
               /\ resp' = Response("km.authenticate", sid, NoId, OK, NoValue)
               /\ backend' = [backend EXCEPT
                                !.users = users,
                                !.reply = [Reply("login", email, OK) EXCEPT
                                              !.km_session_id = users[email]]]
       /\ UNCHANGED <<now, ticks, app, running, cleanup_task, key_storage, keys, bytearrays,
                      next_key, consume_ok, issued, evloop, crypto>>

\* a handler whose get_current_user finds no user for the token
NoUser(op, email) ==
    /\ backend' = [backend EXCEPT !.reply = Reply(op, email, 500)]
    /\ UNCHANGED <<kmState, next_key, issued, resp>>

\* compose_email from the call of encrypt_email on: r is what encrypt_email
\* returned or raised, sent the outcome of send_email
AfterEncrypt(email, data, encryption_mode, km_key, r, sent) ==
    LET d == dumps(data)
        reply == [Reply("compose", email, OK) EXCEPT
                     !.encryption_mode = encryption_mode,
                     !.plaintext = IF d.raised = "" THEN Some(d.value) ELSE NoValue,
                     !.km_key = km_key,
                     !.encrypted = r.raised = ""]
    IN IF r.raised # ""
       THEN [backend EXCEPT !.reply = [reply EXCEPT !.status = 500, !.error = r.msg]]
       ELSE IF sent
       THEN [backend EXCEPT
               !.inbox[data.to] = <<[msg |-> Delivered(r.value), enc_key |-> km_key]>> \o @,
               !.reply = [reply EXCEPT !.sent = TRUE, !.result = "sent"]]
       ELSE IF "body" \notin DOMAIN r.value
       THEN [backend EXCEPT !.reply = [reply EXCEPT !.status = 500, !.error = "'body'"]]
       ELSE [backend EXCEPT
               !.emails = Append(@, [sender |-> email, recipients |-> data.to,
                                     subject |-> data.subject, body |-> r.value.body,
                                     encryption_mode |-> encryption_mode,
                                     status |-> "queued"]),
               !.reply = [reply EXCEPT !.result = "queued"]]

\* POST /api/emails/compose
compose_email(email, data, encryption_mode, seed, sent) ==
    LET known == email \in DOMAIN backend.users
        sid == backend.users[email]
        needs_key == encryption_mode \in KeyedModes
        km_key == IF needs_key THEN Some(token_bytes(default_key_size, seed)) ELSE NoValue
    IN /\ Len(backend.inbox[data.to]) < MaxMails
       /\ IF ~known THEN NoUser("compose", email)
          ELSE IF needs_key /\ GetKeyStatus(sid, now) # OK
          THEN /\ resp' = Response("km.get_key", sid, NoId, ValueError, NoValue)
               /\ backend' = [backend EXCEPT
                                !.reply = [Reply("compose", email, 500) EXCEPT
                                              !.encryption_mode = encryption_mode,
                                              !.error = "Invalid or expired session"]]
               /\ UNCHANGED <<kmState, next_key, issued>>
          ELSE /\ IF needs_key
                  THEN StoreNewKey("km.get_key", sid, default_key_size, seed)
                  ELSE UNCHANGED <<kmState, next_key, issued, resp>>
               /\ \E r \in {encrypt_email(data, encryption_mode, km_key, seed, FALSE, now)} :
                     backend' = AfterEncrypt(email, data, encryption_mode, km_key, r, sent)
       /\ UNCHANGED <<now, ticks, app, running, cleanup_task, next_session, consume_ok,
                      evloop, crypto>>

\* get_inbox: the inbox entries for which it asks the key manager for a key
NeedsKey(inbox) == {i \in 1..Len(inbox) : inbox[i].msg.encryption_mode \in KeyedModes}

\* the key id the key manager gives the get_key call made for entry i
InboxKeyId(inbox, i) == next_key + Cardinality({j \in NeedsKey(inbox) : j < i})

\* the inbox entry whose get_key call made key kid
InboxEntryOf(inbox, kid) == CHOOSE i \in NeedsKey(inbox) : InboxKeyId(inbox, i) = kid

\* the session after add_key of the keys first..last
RECURSIVE AddKeys(_, _, _, _)
AddKeys(s, first, last, t) ==
    IF first > last THEN s ELSE AddKeys(add_key(s, first, t), first + 1, last, t)

\* get_inbox: what it appends for one email. km_key is the key get_key
\* returned, NoValue when none was asked for; failed tells that get_key raised
InboxItem(msg, km_key, failed) ==
    IF failed THEN ErrorEmail(msg, "Failed to decrypt")
    ELSE LET r == decrypt_email(msg, km_key, FALSE)
         IN IF r.raised # "" THEN ErrorEmail(msg, "Failed to decrypt") ELSE r.value

\* GET /api/emails/inbox.  fetched is the outcome of the IMAP fetch, seeds
\* the random draw of each get_key call
get_inbox(email, fetched, seeds) ==
    LET known == email \in DOMAIN backend.users
        sid == backend.users[email]
        inbox == IF fetched THEN backend.inbox[email] ELSE <<>>
        need == NeedsKey(inbox)
        usable == GetKeyStatus(sid, now) = OK
        last == next_key + Cardinality(need) - 1
        new == next_key..last
        key_data(i) == token_bytes(default_key_size, seeds[i])
        km_key(i) == IF i \in need /\ usable THEN Some(key_data(i)) ELSE NoValue
        made(k) == key_data(InboxEntryOf(inbox, k))
    IN /\ IF ~known THEN NoUser("inbox", email)
          ELSE /\ backend' = [backend EXCEPT
                                !.reply = [Reply("inbox", email, OK) EXCEPT
                                   !.emails = [i \in 1..Len(inbox) |->
                                                 InboxItem(inbox[i].msg, km_key(i),
                                                           i \in need /\ ~usable)],
                                   !.km_keys = [i \in 1..Len(inbox) |-> km_key(i)]]]
               /\ IF need = {} THEN UNCHANGED <<kmState, next_key, issued, resp>>
                  ELSE IF ~usable
                  THEN /\ resp' = Response("km.get_key", sid, NoId, ValueError, NoValue)
                       /\ UNCHANGED <<kmState, next_key, issued>>
                  ELSE /\ last <= MaxKeys
                       /\ keys' = [k \in DOMAIN keys \cup new |->
                                     IF k \in DOMAIN keys THEN keys[k]
                                     ELSE [NewEphemeralKey(made(k), key_expiry_seconds, now)
                                              EXCEPT !.session_id = sid]]
                       /\ bytearrays' = [k \in DOMAIN keys \cup new |->
                                           IF k \in DOMAIN keys THEN bytearrays[k]
                                           ELSE made(k)]
                       /\ sessions' = [sessions EXCEPT ![sid] = AddKeys(@, next_key, last, now)]
                       /\ key_storage' = key_storage \cup new
                       /\ next_key' = last + 1
                       /\ issued' = [k \in KeyIds |->
                                       IF k \in new THEN Some(made(k)) ELSE issued[k]]
                       /\ resp' = Response("km.get_key", sid, last, OK, Some(made(last)))
       /\ UNCHANGED <<now, ticks, app, running, cleanup_task, next_session, consume_ok,
                      evloop, crypto>>

\* Email.to_dict of an outbox row: json.loads of the recipients column,
\* which holds the compose form's to field as it was typed
ToDict(row) ==
    IF row.recipients = "" THEN Returns([row EXCEPT !.recipients = <<>>])
    ELSE RaisesMsg("JSONDecodeError", "Expecting value")

\* retry_outbox: send_email of the dict of a row.  send_email reads
\* email_data["to"], and catches the KeyError
RetrySends(row, sent) ==
    LET d == ToDict(row)
    IN d.raised = "" /\ "to" \in DOMAIN d.value /\ sent

\* POST /api/emails/retry-outbox.  sent is the outcome of the SMTP exchange
retry_outbox(email, sent) ==
    LET queued == {i \in 1..Len(backend.emails) :
                      /\ backend.emails[i].sender = email
                      /\ backend.emails[i].status = "queued"}
        resent == {i \in queued : RetrySends(backend.emails[i], sent)}
    IN /\ IF email \notin DOMAIN backend.users THEN NoUser("retry", email)
          ELSE /\ backend' = [backend EXCEPT
                                !.emails = [i \in 1..Len(@) |->
                                              IF i \in resent THEN [@[i] EXCEPT !.status = "sent"]
                                              ELSE @[i]],
                                !.reply = [Reply("retry", email, OK) EXCEPT
                                              !.sent = sent,
                                              !.sent_count = Cardinality(resent),
                                              !.total_queued = Cardinality(queued)]]
               /\ UNCHANGED <<kmState, next_key, issued, resp>>
       /\ UNCHANGED <<now, ticks, app, running, cleanup_task, next_session, consume_ok,
                      evloop, crypto>>

AppNext ==
    \/ \E d \in RequestGaps : Tick(d)
    \/ start
    \/ stop
    \/ \E e \in Principals, valid \in BOOLEAN : login(e, valid)
    \/ \E e \in Principals, data \in Compositions, m \in ComposeModes, seed \in KeySeeds,
          sent \in BOOLEAN : compose_email(e, data, m, seed, sent)
    \/ \E e \in Principals, fetched \in BOOLEAN, seeds \in [1..MaxMails -> KeySeeds] :
          get_inbox(e, fetched, seeds)
    \/ \E e \in Principals, sent \in BOOLEAN : retry_outbox(e, sent)

AppSpec == Init /\ [][AppNext]_vars

\* ------------------------------------------------- vocabulary of the claims
\* the step is a call of the named route or method
IsCall(op) == resp'.op = op

IssueOps == {"getKey", "km.get_key"}

\* InvalidSession as each issuance entry point reports it
InvalidSessionOf(op) == IF op = "getKey" THEN 401 ELSE ValueError

\* the inactivity timeout of session s has elapsed at time t
TimedOut(s, t) == t - s.last_activity > session_timeout

\* the session id names no session that may issue or consume at time t
SessionInvalid(sid, t) ==
    \/ sid \notin DOMAIN sessions
    \/ ~sessions[sid].active
    \/ TimedOut(sessions[sid], t)

\* keys of session s that are unconsumed and unexpired at time t
LiveKeys(s, t) == {k \in s.current_keys : ~keys[k].consumed /\ ~(t > keys[k].expires_at)}

\* every key id held by some session in the given session table
HeldKeys(tbl) == UNION {tbl[sid].current_keys : sid \in DOMAIN tbl}

\* ---------------------------------------------------------------------- C1
\* C1 (as stated): at most one consumeKey per key id succeeds, and every
\* consumeKey naming a key that was already consumed fails with KeyNotFound
\* (404) and returns no key material.
C1_Original ==
    [][IsCall("consumeKey") =>
         LET kid == resp'.key_id
         IN /\ consume_ok'[kid] <= 1
            /\ consume_ok[kid] >= 1 =>
                 /\ resp'.status = 404
                 /\ resp'.key_data = NoValue]_vars

\* C1 (amended): at most one consumeKey per key id succeeds; every later
\* consumeKey naming that key fails and returns no key material, with
\* KeyNotFound (404) while the named session is still in the session table and
\* with InvalidSession (401) once it has been closed or removed.
C1_SingleUse ==
    [][IsCall("consumeKey") =>
         LET sid == resp'.session_id
             kid == resp'.key_id
         IN /\ consume_ok'[kid] <= 1
            /\ consume_ok[kid] >= 1 =>
                 /\ resp'.status = IF sid \in DOMAIN sessions THEN 404 ELSE 401
                 /\ resp'.key_data = NoValue
                 /\ consume_ok' = consume_ok
                 /\ keys' = keys]_vars

\* a second consumeKey of a consumed, still unexpired and stored key was refused
C1_Witness ==
    /\ resp.op = "consumeKey"
    /\ resp.status = 404
    /\ resp.key_id \in key_storage
    /\ consume_ok[resp.key_id] = 1
    /\ resp.session_id \in DOMAIN sessions
    /\ resp.key_id \in sessions[resp.session_id].current_keys
    /\ ~KeyIsExpired(keys[resp.key_id], now)

\* ---------------------------------------------------------------------- C2
\* C2: a consumeKey made after the key's expires_at has passed, while the key
\* is still in its session's map and in key_storage (no cleanup pass removed
\* it), fails with KeyNotFound (404), returns no material and consumes nothing.
C2_LazyExpiry ==
    [][IsCall("consumeKey") =>
         LET sid == resp'.session_id
             kid == resp'.key_id
         IN (/\ sid \in DOMAIN sessions
             /\ kid \in sessions[sid].current_keys
             /\ kid \in key_storage
             /\ now > keys[kid].expires_at) =>
                 /\ resp'.status = 404
                 /\ resp'.key_data = NoValue
                 /\ keys' = keys
                 /\ consume_ok' = consume_ok]_vars

\* an expired, never consumed key that no cleanup pass can have touched was
\* refused
C2_Witness ==
    /\ resp.op = "consumeKey"
    /\ resp.status = 404
    /\ ~running
    /\ resp.key_id \in key_storage
    /\ resp.session_id \in DOMAIN sessions
    /\ resp.key_id \in sessions[resp.session_id].current_keys
    /\ ~keys[resp.key_id].consumed
    /\ Truthy(keys[resp.key_id].key_data)
    /\ now > keys[resp.key_id].expires_at

\* ---------------------------------------------------------------------- C3
\* C3: at both issuance entry points, a call naming a session that is unknown,
\* inactive or past its inactivity timeout fails with InvalidSession and
\* issues no key.
C3_IssueInvalidSession ==
    [][\A op \in IssueOps :
         (IsCall(op) /\ SessionInvalid(resp'.session_id, now)) =>
             /\ resp'.status = InvalidSessionOf(op)
             /\ UNCHANGED kmState]_vars

\* ---------------------------------------------------------------------- C4
\* C4: a consumeKey naming a session that is missing, inactive or past its
\* inactivity timeout fails with InvalidSession (401), returns no material and
\* marks no key consumed.
C4_ConsumeInvalidSession ==
    [][(IsCall("consumeKey") /\ SessionInvalid(resp'.session_id, now)) =>
         /\ resp'.status = 401
         /\ resp'.key_data = NoValue
         /\ keys' = keys]_vars

\* ---------------------------------------------------------------------- C5
\* C5: a getKey call that passes the session and size checks fails with
\* QuotaExceeded (429) exactly when the session already holds
\* max_keys_per_session unconsumed, unexpired keys.
C5_QuotaCountsLiveKeys ==
    [][(IsCall("getKey") /\ resp'.status \notin {401, 400}) =>
         (resp'.status = 429 <=>
            Cardinality(LiveKeys(sessions[resp'.session_id], now)) >= max_keys_per_session)]_vars

\* ---------------------------------------------------------------------- C6
\* C6: no session ever holds more than max_keys_per_session keys in its map.
C6_MapWithinLimit ==
    \A sid \in DOMAIN sessions :
        Cardinality(sessions[sid].current_keys) <= max_keys_per_session

\* ---------------------------------------------------------------------- C7
\* C7: every key stored in a session's map or in key_storage was issued with a
\* material length between 16 and 64 bytes.
C7_StoredKeySizes ==
    \A k \in key_storage \cup HeldKeys(sessions) :
        /\ Len(bytearrays[k]) >= min_key_size
        /\ Len(bytearrays[k]) <= max_key_size

\* ---------------------------------------------------------------------- C8
\* C8: a failed issueKey (either entry point) leaves the session table, every
\* key map and counter, and key_storage unchanged; a successful one adds
\* exactly one new key, to the session's map and to key_storage, and adds one
\* to the session's keys_requested.
C8_IssueAllOrNothing ==
    [][\A op \in IssueOps : IsCall(op) =>
         LET sid == resp'.session_id
             kid == resp'.key_id
         IN IF resp'.status # OK
            THEN UNCHANGED kmState
            ELSE /\ kid \notin key_storage \cup HeldKeys(sessions)
                 /\ key_storage' = key_storage \cup {kid}
                 /\ DOMAIN sessions' = DOMAIN sessions
                 /\ sessions'[sid].current_keys = sessions[sid].current_keys \cup {kid}
                 /\ sessions'[sid].keys_requested = sessions[sid].keys_requested + 1
                 /\ sessions'[sid].keys_consumed = sessions[sid].keys_consumed
                 /\ \A other \in DOMAIN sessions \ {sid} : sessions'[other] = sessions[other]
                 /\ \A k \in DOMAIN keys : keys'[k] = keys[k] /\ bytearrays'[k] = bytearrays[k]
                 /\ keys'[kid].key_data = resp'.key_data]_vars

\* a getKey was refused for the key limit by a session that holds a key
C8_Witness ==
    /\ resp.op = "getKey"
    /\ resp.status = 429
    /\ sessions[resp.session_id].keys_requested >= 1
    /\ key_storage # {}

\* ---------------------------------------------------------------------- C9
\* C9: closeSession of a session in the table zeroes the material of every key
\* the session holds and removes the session and those keys from the session
\* table and from key_storage; closeSession of an id that is not (or no
\* longer) in the table fails with SessionNotFound (404) and changes nothing.
C9_CloseSession ==
    [][IsCall("closeSession") =>
         LET sid == resp'.session_id
         IN IF sid \in DOMAIN sessions
            THEN /\ resp'.status = OK
                 /\ sid \notin DOMAIN sessions'
                 /\ \A k \in sessions[sid].current_keys :
                       /\ k \notin key_storage' \cup HeldKeys(sessions')
                       /\ ~Truthy(keys'[k].key_data)
                       /\ IsZeroed(bytearrays'[k])
            ELSE /\ resp'.status = 404
                 /\ UNCHANGED kmState]_vars

\* a second closeSession of a session that held a key was refused
C9_Witness ==
    /\ resp.op = "closeSession"
    /\ resp.status = 404
    /\ resp.session_id < next_session
    /\ \E k \in DOMAIN keys :
          /\ keys[k].session_id = resp.session_id
          /\ keys[k].key_data = NoValue
          /\ k \notin key_storage

\* --------------------------------------------------------------------- C10
\* C10: at the end of a cleanup pass, every key the pass found past its
\* expires_at (in its scan of key_storage or in its scan of a session's map)
\* has zeroed material and is in neither key_storage nor any session's map.
C10_PassRemovesExpired ==
    [][IsCall("cleanup") =>
         \A k \in DOMAIN keys :
            (\/ k \in key_storage /\ now > keys[k].expires_at
             \/ k \in HeldKeys(sessions) /\ now' > keys[k].expires_at) =>
                 /\ k \notin key_storage'
                 /\ k \notin HeldKeys(sessions')
                 /\ IsZeroed(bytearrays'[k])]_vars

C12_StartRunsSweep ==
    [][IsCall("start") => running' /\ cleanup_task' = "scheduled"]_vars

\* --------------------------------------------------------------------- C13
\* C13: each way of stopping the cleanup loop (stop(), the KM app's lifespan
\* shutdown with its cancellation of the task) leaves no key of a session's
\* map or of key_storage with material that is not zeroed.
C13_ShutdownWipesAll ==
    [][IsCall("stop") \/ IsCall("lifespan_shutdown") =>
         \A k \in key_storage \cup HeldKeys(sessions) :
            /\ IsZeroed(bytearrays'[k])
            /\ ~Truthy(keys'[k].key_data)]_vars

\* --------------------------------------------------------------------- C14
\* C14: a key that was consumed successfully is never removed from
\* key_storage by a cleanup pass as an expired key, and a successful consume
\* is only ever of a key that no pass has removed from key_storage.
C14_ConsumedXorSwept ==
    [][/\ IsCall("cleanup") =>
             \A k \in key_storage \ key_storage' : consume_ok[k] = 0
       /\ IsCall("consumeKey") /\ resp'.status = OK =>
             resp'.key_id \in key_storage]_vars

\* --------------------------------------------------------------------- C15
\* coroutine t is inside an operation: a request between its first statement
\* and its return, the cleanup loop between the start of a pass and its sleep
Mid(t) == IF t = SweepTask THEN tasks[t].pc # "s_scan" ELSE tasks[t].h # "idle"

\* C15: consumeKey, km.get_key, closeSession and the cleanup pass never
\* interleave.  At most one of them is inside its operation; when the loop
\* is free for another one to start or to go on, none is; a consume that
\* found its key valid still finds it in the session's map, not consumed and
\* not wiped, when it gets to set the flag; and an operation that starts
\* never sees a key in a session's map that is not yet in key_storage.
C15_NoInterleaving ==
    /\ Cardinality({t \in AllTasks : Mid(t)}) <= 1
    /\ loop = NoValue => \A t \in AllTasks : ~Mid(t)
    /\ \A t \in TaskIds :
          tasks[t].pc = "c_set" =>
             /\ tasks[t].sid \in DOMAIN sessions
             /\ tasks[t].kid \in sessions[tasks[t].sid].current_keys
             /\ ~keys[tasks[t].kid].consumed
             /\ keys[tasks[t].kid].key_data # NoValue
    /\ loop = NoValue => HeldKeys(sessions) \subseteq key_storage

\* a consume has found its key valid and not yet set the flag; the key has
\* expired since and the cleanup loop is scheduled, waiting for the loop
C15_Witness ==
    \E t \in TaskIds :
       /\ tasks[t].pc = "c_set"
       /\ running
       /\ cleanup_task = "scheduled"
       /\ now > keys[tasks[t].kid].expires_at

\* --------------------------------------------------------------------- C16
\* C16: in every step that removes a key from key_storage or from a
\* session's map, the key's buffer is all zeros and its key_data reference
\* holds no material once the step is done.
C16_ZeroBeforeDiscard ==
    [][\A k \in (key_storage \ key_storage')
                    \cup (HeldKeys(sessions) \ HeldKeys(sessions')) :
          /\ IsZeroed(bytearrays'[k])
          /\ ~Truthy(keys'[k].key_data)]_vars

\* a key that had material when issued has just been removed from both tables
\* by a cleanup pass, by closeSession or by stop()
C16_Witness ==
    /\ resp.op \in {"cleanup", "closeSession", "stop"}
    /\ \E k \in DOMAIN keys :
          /\ Truthy(issued[k])
          /\ k \notin key_storage \cup HeldKeys(sessions)
          /\ IsZeroed(bytearrays[k])

\* --------------------------------------------------------------------- C17
\* C17: a successful consumeKey answers with exactly the material that the
\* issuance of that key returned.
C17_ConsumeReturnsMaterial ==
    [][IsCall("consumeKey") /\ resp'.status = OK =>
         resp'.key_data = issued[resp'.key_id]]_vars

\* --------------------------------------------------------------------- C18
\* C18: is_expired() of a session is true exactly when the time since its
\* last_activity is greater than session_timeout, whatever the duration.
C18_SessionExpiredIffElapsed ==
    \A sid \in DOMAIN sessions :
       SessionIsExpired(sessions[sid], now) <=> TimedOut(sessions[sid], now)

\* --------------------------------------------------------------------- C19
\* C19: for every session, keys_consumed <= keys_requested, and
\* keys_consumed is the number of keys issued to the session whose consumed
\* flag is set.
C19_ConsumedCount ==
    \A sid \in DOMAIN sessions :
       /\ sessions[sid].keys_consumed <= sessions[sid].keys_requested
       /\ sessions[sid].keys_consumed =
             Cardinality({k \in DOMAIN keys :
                             keys[k].session_id = sid /\ keys[k].consumed})

\* a session has a consumed key
C19_Witness ==
    \E sid \in DOMAIN sessions :
       /\ sessions[sid].keys_consumed >= 1
       /\ \E k \in DOMAIN keys : keys[k].session_id = sid /\ keys[k].consumed

\* --------------------------------------------------------------------- C20
\* km_key is a key the mode accepts for this envelope: any for NONE, one with
\* bytes for AES, one at least as long as the serialized content for OTP
KeyAcceptable(encryption_mode, km_key, email_data) ==
    \/ encryption_mode = "NONE"
    \/ encryption_mode = "AES" /\ Truthy(km_key)
    \/ /\ encryption_mode = "OTP"
       /\ Truthy(km_key)
       /\ dumps(email_data).raised = ""
       /\ Len(km_key[1]) >= Len(dumps(email_data).value)

\* C20: for modes OTP, AES and NONE, every envelope and every key the mode
\* accepts, encrypt_email returns an envelope and decrypt_email of it with
\* the same key reports success with the subject, body and attachments of
\* the original.
C20_RoundTrip ==
    (/\ crypto.phase \in {"raised", "decrypted"}
     /\ crypto.tampered = <<>>
     /\ crypto.dec_key = crypto.km_key
     /\ KeyAcceptable(crypto.encryption_mode, crypto.km_key, crypto.email_data[1])) =>
        /\ crypto.phase = "decrypted"
        /\ crypto.decrypted # NoValue
        /\ crypto.decrypted[1].decryption_status = "success"
        /\ crypto.decrypted[1].subject = crypto.email_data[1].subject
        /\ crypto.decrypted[1].body = crypto.email_data[1].body
        /\ crypto.decrypted[1].attachments = crypto.email_data[1].attachments

\* --------------------------------------------------------------------- C29
\* what a consumeKey call may not touch when it fails: the consumed flags,
\* the two counters of every session, the key maps and key_storage
ConsumeLeavesAlone ==
    /\ \A k \in DOMAIN keys : keys'[k].consumed = keys[k].consumed
    /\ \A sid \in DOMAIN sessions :
          /\ sessions'[sid].keys_requested = sessions[sid].keys_requested
          /\ sessions'[sid].keys_consumed = sessions[sid].keys_consumed
          /\ sessions'[sid].current_keys = sessions[sid].current_keys
    /\ DOMAIN sessions' = DOMAIN sessions
    /\ key_storage' = key_storage

\* C29: a consumeKey call answered 401 (InvalidSession) or 404 (KeyNotFound)
\* leaves every consumed flag, keys_requested, keys_consumed, the key maps
\* and key_storage as they were; and a call that sets a key's flag and
\* raises its session's keys_consumed is answered 200.
C29_FailedConsumeChangesNothing ==
    [][IsCall("consumeKey") =>
        /\ resp'.status \in {401, 404} => ConsumeLeavesAlone
        /\ (\E k \in DOMAIN keys :
              /\ ~keys[k].consumed /\ keys'[k].consumed
              /\ keys[k].session_id \in DOMAIN sessions
              /\ sessions'[keys[k].session_id].keys_consumed
                   = sessions[keys[k].session_id].keys_consumed + 1)
            => resp'.status = OK]_vars

\* --------------------------------------------------------------------- C30
\* C30: in every reachable state key_storage holds exactly the key ids of
\* the key maps of the sessions in the session table, and every such key
\* carries the id of the session that holds it.
C30_StoreConsistency ==
    /\ key_storage = HeldKeys(sessions)
    /\ \A sid \in DOMAIN sessions : \A k \in sessions[sid].current_keys :
          keys[k].session_id = sid

\* --------------------------------------------------------------------- C21
KeyTooShort == "OTP key must be at least as long as plaintext"

\* the bytes encrypt_email encrypts: the serialized content of its envelope
Plaintext == dumps(crypto.email_data[1])

\* an encrypt_email call in mode OTP has ended, with something to encrypt
OtpCallEnded ==
    /\ crypto.phase \in {"raised", "encrypted"}
    /\ crypto.tampered = <<>>
    /\ crypto.encryption_mode = "OTP"
    /\ Plaintext.raised = ""

\* the call failed with KeyTooShort exactly when the key is the shorter one,
\* left no envelope then, and otherwise returned the XOR of plaintext and key
OtpOutcome ==
    LET K == crypto.km_key[1]
        P == Plaintext.value
    IN /\ Len(K) < Len(P) <=> (crypto.phase = "raised" /\ crypto.msg = KeyTooShort)
       /\ crypto.phase = "raised" => crypto.encrypted = NoValue
       /\ Len(K) >= Len(P) =>
            /\ crypto.phase = "encrypted"
            /\ b64decode(crypto.encrypted[1].content[1]).value
                 = [i \in 1..Len(P) |-> Xor(P[i], K[i])]

\* C21 as stated: OTP encrypt of plaintext P with key K fails with
\* KeyTooShort, without an envelope, exactly when K is shorter than P, and
\* otherwise succeeds with ciphertext[i] = P[i] XOR K[i].
C21_Original == (OtpCallEnded /\ crypto.km_key # NoValue) => OtpOutcome

\* C21 amended: the same for every key of at least one byte; an empty key is
\* refused as a missing key.
C21_KeyTooShort ==
    /\ (OtpCallEnded /\ Truthy(crypto.km_key)) => OtpOutcome
    /\ (OtpCallEnded /\ crypto.km_key = Some(<<>>)) =>
          crypto.phase = "raised" /\ crypto.msg = "KM key required for OTP encryption"

\* a key of 32 bytes was refused as too short for the content
C21_Witness ==
    /\ OtpCallEnded
    /\ Truthy(crypto.km_key)
    /\ Len(crypto.km_key[1]) < Len(Plaintext.value)
    /\ crypto.phase = "raised"
    /\ crypto.msg = KeyTooShort

\* --------------------------------------------------------------------- C22
\* an OTP encryption has returned its envelope
OtpEncrypted ==
    /\ crypto.phase = "encrypted"
    /\ crypto.tampered = <<>>
    /\ crypto.encryption_mode = "OTP"

OtpCiphertext == b64decode(crypto.encrypted[1].content[1]).value

\* C22 as stated: for every plaintext P and every key K with |K| >= |P| and
\* some non-zero byte, the OTP ciphertext differs from P.
C22_Original ==
    (OtpEncrypted /\ ~IsZeroed(crypto.km_key[1])) => OtpCiphertext # Plaintext.value

\* C22 amended: the ciphertext differs from P whenever one of the first |P|
\* bytes of K is non-zero (and equals P when they are all zero).
C22_CiphertextDiffers ==
    OtpEncrypted =>
        (OtpCiphertext # Plaintext.value
            <=> ~IsZeroed(SubSeq(crypto.km_key[1], 1, Len(Plaintext.value))))

\* the key with only its first byte set encrypted a content
C22_Witness ==
    /\ OtpEncrypted
    /\ crypto.km_key = Some(OneByteKey(1))
    /\ OtpCiphertext # Plaintext.value

\* --------------------------------------------------------------------- C23
IntegrityFailure == "MAC verification failed"

\* decrypt_email has returned, given the key of the encryption, for an
\* envelope of encrypt_email whose content or mac was changed (not removed)
TamperedDecrypted ==
    /\ crypto.phase = "decrypted"
    /\ crypto.dec_key = crypto.km_key
    /\ crypto.tampered # <<>>
    /\ crypto.tampered[1] \in TamperFields
    /\ crypto.tampered[2] # "missing"

\* C23: for every mode, decrypt_email of an envelope whose content or mac
\* field was changed after encrypt_email returns a failure whose reason is
\* the failed MAC verification: never success, never another reason.
C23_TamperDetected ==
    TamperedDecrypted =>
        /\ crypto.decrypted # NoValue
        /\ crypto.decrypted[1].decryption_status = "error"
        /\ crypto.decrypted[1].decryption_error = IntegrityFailure

\* --------------------------------------------------------------------- C24
\* the calls that decrypt the content or parse it
UseSteps == {"otp_decrypt", "aes_decrypt", "loads"}

\* the key the mode verifies the MAC with
MacKeyOf(encryption_mode, km_key) ==
    IF encryption_mode = "NONE" THEN DEFAULT_MAC_KEY ELSE sha256(km_key[1] \o MAC_SUFFIX)

\* the bytes the mode's MAC covers: the decoded content, with the decoded
\* nonce after it in mode AES
MacData(env) ==
    IF env.encryption_mode = "AES"
    THEN b64decode(env.content[1]).value \o b64decode(env.nonce[1]).value
    ELSE b64decode(env.content[1]).value

\* the envelope carries a MAC that is the MAC of its content under the key
MacMatches(env, km_key) ==
    /\ env.encryption_mode = "NONE" \/ Truthy(km_key)
    /\ env.content # NoValue /\ b64decode(env.content[1]).raised = ""
    /\ env.encryption_mode = "AES" =>
          env.nonce # NoValue /\ b64decode(env.nonce[1]).raised = ""
    /\ env.mac # NoValue
    /\ B64TextDecode(env.mac[1]).raised = ""
    /\ B64TextDecode(env.mac[1]).value
         = HmacDigest(MacData(env), MacKeyOf(env.encryption_mode, km_key))

\* decrypt_email has returned for an envelope of mode OTP, AES or NONE
KeyedOrPlainDecrypted ==
    /\ crypto.phase = "decrypted"
    /\ crypto.encrypted[1].encryption_mode \in {"OTP", "AES", "NONE"}

\* C24: in modes OTP, AES and NONE decrypt_email verifies the MAC before it
\* decrypts or parses the content; when the MAC does not match it neither
\* decrypts nor parses, and what it returns has no subject, body or
\* attachments.
C24_VerifyBeforeUse ==
    KeyedOrPlainDecrypted =>
        /\ \A i \in 1..Len(crypto.did) :
              crypto.did[i] \in UseSteps => \E j \in 1..(i - 1) : crypto.did[j] = "verify_hmac"
        /\ ~MacMatches(crypto.encrypted[1], crypto.dec_key) =>
              /\ \A i \in 1..Len(crypto.did) : crypto.did[i] \notin UseSteps
              /\ crypto.decrypted # NoValue
              /\ DOMAIN crypto.decrypted[1] \cap {"subject", "body", "attachments"} = {}

\* a MAC with a flipped data bit was verified and nothing else was done
C24_Witness ==
    /\ KeyedOrPlainDecrypted
    /\ crypto.tampered = <<"mac", "data">>
    /\ crypto.did = <<"verify_hmac">>
    /\ crypto.decrypted[1].decryption_status = "error"

\* --------------------------------------------------------------------- C25
\* the step is a decrypt_email call
IsDecrypt == crypto.phase = "encrypted" /\ crypto'.phase = "decrypted"

\* C25: a decrypt_email call raises nothing, whatever is wrong with the
\* envelope or the key (bad MAC, field missing or malformed, no key, unknown
\* mode), and leaves the envelope it was given as it was.  It sets
\* decryption_status to success exactly when it got the content, and
\* otherwise returns the envelope's own fields, unchanged, with
\* decryption_status = error and a non-empty decryption_error.
C25_DecryptNeverRaises ==
    [][IsDecrypt =>
        /\ crypto'.raised = ""
        /\ crypto'.decrypted # NoValue
        /\ crypto'.encrypted = crypto.encrypted
        /\ LET env == crypto.encrypted[1]
               res == crypto'.decrypted[1]
           IN /\ res.decryption_status \in {"success", "error"}
              /\ res.decryption_status = "success" <=> "subject" \in DOMAIN res
              /\ res.decryption_status = "error" =>
                    /\ DOMAIN res = DOMAIN env \cup {"decryption_status", "decryption_error"}
                    /\ \A f \in DOMAIN env : res[f] = env[f]
                    /\ res.decryption_error # ""]_vars

\* an envelope without its mac came back with the error status
C25_Witness ==
    /\ crypto.phase = "decrypted"
    /\ crypto.tampered = <<"mac", "missing">>
    /\ crypto.raised = ""
    /\ crypto.decrypted # NoValue
    /\ crypto.decrypted[1].decryption_status = "error"
    /\ crypto.decrypted[1].decryption_error = "mac"

\* --------------------------------------------------------------------- C26
MissingKey == {"KM key required for OTP encryption", "KM key required for AES encryption"}
UnknownMode == "Unknown encryption mode"

\* an encrypt_email call has ended
EncryptEnded ==
    /\ crypto.phase \in {"raised", "encrypted"}
    /\ crypto.tampered = <<>>

\* C26: encrypt_email in mode OTP or AES without key material (None or no
\* bytes) fails with MissingKey and returns no envelope; in mode NONE or PQC
\* it never fails for want of a key; with any other mode it fails with
\* UnknownMode.
C26_MissingKeyUnknownMode ==
    EncryptEnded =>
        /\ (crypto.encryption_mode \in {"OTP", "AES"} /\ ~Truthy(crypto.km_key)) =>
              /\ crypto.phase = "raised"
              /\ crypto.msg \in MissingKey
              /\ crypto.encrypted = NoValue
        /\ crypto.encryption_mode \in {"NONE", "PQC"} => crypto.msg \notin MissingKey
        /\ crypto.encryption_mode \notin {"OTP", "AES", "PQC", "NONE"} =>
              /\ crypto.phase = "raised"
              /\ crypto.msg = UnknownMode

\* --------------------------------------------------------------------- C27
KeyUnavailable == "PQC decryption requires recipient's secret key"

\* decrypt_email has returned for an envelope of mode PQC
PqcDecrypted ==
    /\ crypto.phase = "decrypted"
    /\ crypto.encrypted[1].encryption_mode = "PQC"

\* content, nonce and pqc_ciphertext are there and are base64 text
PqcFieldsDecode(env) ==
    /\ env.content # NoValue /\ b64decode(env.content[1]).raised = ""
    /\ env.nonce # NoValue /\ b64decode(env.nonce[1]).raised = ""
    /\ env.pqc_ciphertext # NoValue /\ B64TextDecode(env.pqc_ciphertext[1]).raised = ""

Wiped(obj) == obj.data = ZeroBytes(obj.data.size)

\* C28: when encrypt_email returns in mode PQC, the buffers that held the
\* shared secret and the ephemeral private key used by the call hold zeros.
C28_PqcSecretsWiped ==
    (crypto.phase = "encrypted" /\ crypto.encryption_mode = "PQC") =>
        /\ crypto.buffers # NoValue
        /\ Wiped(crypto.buffers[1].shared_secret)
        /\ Wiped(crypto.buffers[1].pqc_secret)

\* --------------------------------------------------------------------- C32
\* the step is an issuance or a consumption that names session sid
NamesSession(sid) ==
    /\ resp'.op \in IssueOps \cup {"consumeKey"}
    /\ resp'.session_id = sid

\* C32: once the inactivity timeout of a session has elapsed, no step
\* changes its last_activity and none lets it issue or consume a key, for as
\* long as the session is in the session table.
C32_ExpiryIsPermanent ==
    [][\A sid \in DOMAIN sessions :
         (TimedOut(sessions[sid], now) /\ sid \in DOMAIN sessions') =>
            /\ sessions'[sid].last_activity = sessions[sid].last_activity
            /\ NamesSession(sid) => resp'.status # OK]_vars

\* --------------------------------------------------------------------- C33
\* key k holds the material its issuance produced, in the key object and in
\* the bytearray behind it
MaterialIntact(k) ==
    /\ keys[k].key_data = issued[k]
    /\ bytearrays[k] = issued[k][1]

\* every unexpired, unconsumed key of a session in the session table is intact
LiveKeysIntact ==
    \A sid \in DOMAIN sessions :
       \A k \in LiveKeys(sessions[sid], now) : MaterialIntact(k)

\* C33: after every step, every unexpired and unconsumed key held by a
\* session of the session table has the material it was issued with, and a
\* consumeKey whose validity checks pass finds that material in the key and
\* does not fail while copying it.
C33_LiveKeysKeepMaterial ==
    [][/\ LiveKeysIntact'
       /\ \A sid \in SessionIds, kid \in KeyIds :
            (IsCall("consumeKey") /\ resp'.session_id = sid /\ resp'.key_id = kid
                /\ ConsumeSetsFlag(sid, kid, now, now')) =>
               /\ MaterialIntact(kid)
               /\ resp'.status # 500]_vars

\* a consumeKey has just succeeded on a key of a session while another key,
\* wiped by a cleanup pass, is still on the heap
C33_Witness ==
    /\ resp.op = "consumeKey"
    /\ resp.status = OK
    /\ resp.key_id \in sessions[resp.session_id].current_keys
    /\ \E k \in DOMAIN keys : keys[k].key_data = NoValue /\ IsZeroed(bytearrays[k])

\* --------------------------------------------------------------------- C31
\* C31: a consumeKey succeeds only when the key it names was issued to the
\* session it names; a call that names another session, valid or not, fails,
\* returns no material and leaves the key unconsumed.
C31_SessionScoped ==
    [][\A sid \in PeerIds, kid \in KeyIds :
         (IsCall("consumeKey") /\ resp'.session_id = sid /\ resp'.key_id = kid
             /\ (kid \notin DOMAIN keys \/ keys[kid].session_id # sid)) =>
            /\ resp'.status # OK
            /\ resp'.key_data = NoValue
            /\ consume_ok' = consume_ok
            /\ keys' = keys]_vars

\* a consumeKey has just been refused that named a live session and a key
\* another live session holds, unexpired and unconsumed
C31_Witness ==
    /\ resp.op = "consumeKey"
    /\ resp.status = 404
    /\ resp.session_id \in DOMAIN sessions
    /\ resp.key_id \in DOMAIN keys
    /\ keys[resp.key_id].session_id # resp.session_id
    /\ keys[resp.key_id].session_id \in DOMAIN sessions
    /\ resp.key_id \in LiveKeys(sessions[keys[resp.key_id].session_id], now)

\* --------------------------------------------------------------------- C34
\* the last request was an inbox fetch that returned the user's INBOX
InboxFetched ==
    /\ backend.reply.op = "inbox"
    /\ backend.reply.status = OK
    /\ Len(backend.reply.emails) = Len(backend.inbox[backend.reply.user])

\* C34: when the inbox flow decrypts a message that was composed in OTP or
\* AES mode, with a key of the same user's KM session, that key is the key
\* material encrypt_email was given for the message, and the message comes
\* back with decryption_status success.
C34_KeyAgreement ==
    InboxFetched =>
       \A i \in 1..Len(backend.reply.emails) :
          LET entry == backend.inbox[backend.reply.user][i]
          IN (entry.msg.encryption_mode \in KeyedModes /\ backend.reply.km_keys[i] # NoValue) =>
                /\ backend.reply.km_keys[i] = entry.enc_key
                /\ backend.reply.emails[i].decryption_status = "success"

\* --------------------------------------------------------------------- C35
\* the last request was a compose in OTP mode that got a key from the key
\* manager
OtpComposed ==
    /\ backend.reply.op = "compose"
    /\ backend.reply.encryption_mode = "OTP"
    /\ backend.reply.km_key # NoValue

\* C35: the key an OTP compose gets from the key manager is at least as long
\* as the JSON encoding of subject, body and attachments it encrypts, and the
\* compose does not fail with KeyTooShort.
C35_OtpKeyLongEnough ==
    OtpComposed =>
       /\ Len(backend.reply.km_key[1]) >= Len(backend.reply.plaintext[1])
       /\ backend.reply.error # KeyTooShort

\* --------------------------------------------------------------------- C36
\* the step is a login that succeeded
LoggedIn ==
    /\ backend'.reply.op = "login"
    /\ backend'.reply.status = OK
    /\ next_session' # next_session

\* C36: when a login has succeeded, the km_session_id stored for the user,
\* which the login returns, names a session of the key manager's session
\* table.
C36_StoredSessionExists ==
    [][LoggedIn =>
         /\ backend'.users[backend'.reply.user] \in DOMAIN sessions'
         /\ backend'.reply.km_session_id \in DOMAIN sessions']_vars

\* --------------------------------------------------------------------- C37
\* the outbox rows of the user that are queued
Queued(b, user) ==
    {i \in 1..Len(b.emails) : b.emails[i].sender = user /\ b.emails[i].status = "queued"}

\* the step is a compose whose encryption succeeded and whose send failed
SendFailed ==
    /\ backend'.reply.op = "compose"
    /\ backend' # backend
    /\ backend'.reply.encrypted
    /\ ~backend'.reply.sent

\* the step is a retry-outbox whose SMTP exchange succeeds
Resent ==
    /\ backend'.reply.op = "retry"
    /\ backend'.reply.status = OK
    /\ backend'.reply.sent

\* C37: a compose whose encryption succeeded and whose send failed answers
\* 'queued' and adds a queued row to the outbox; a retry-outbox that sends
\* turns every queued row of the user into a sent one and removes no row.
C37_QueuedThenSent ==
    [][/\ SendFailed =>
            /\ backend'.reply.status = OK
            /\ backend'.reply.result = "queued"
            /\ Cardinality(Queued(backend', backend'.reply.user))
                  = Cardinality(Queued(backend, backend'.reply.user)) + 1
       /\ Resent =>
            /\ Len(backend'.emails) = Len(backend.emails)
            /\ \A i \in Queued(backend, backend'.reply.user) :
                  backend'.emails[i].status = "sent"]_vars
====
